---- MODULE Spec2Model ----
(***************************************************************************)
(* State store, checksum engine and processing orchestrator of Trudy:      *)
(* src/core/state.py, src/utils/checksum.py, src/core/processor.py.       *)
(***************************************************************************)
EXTENDS Integers, Sequences, FiniteSets, TLC

\* ---------------------------------------------------------------- bounds
Users == {"alice", "bob"}
\* Staging paths: a1 and a2 lie in alice's staging directory, b1 in bob's.
Files == {"a1", "a2", "b1"}
\* One staging entry: a well-formed message ("msg") or a block the reader
\* cannot parse ("junk").
Entries == {"msg", "junk"}
\* Longest staging file, in entries.
MaxLen == 2
\* Operations in one behaviour: direct calls of the store, fetch cycles,
\* environment steps and processor runs.
MaxOps == 4
\* Largest message_count passed to the store directly.
MaxCount == 1
\* Operations in one behaviour of the store taken alone.
MaxStoreOps == 2
\* Calls of the store made by concurrent threads in one behaviour.
MaxCalls == 3
\* Threads that share one StateManager.
Threads == {1, 2}

\* ------------------------------------------------------------ primitives
\* Optional[str] checksum that is None.
NoChecksum == 0
\* Optional[int] last_message_id that is None.
NoMessageId == 0
\* Optional[str] phone that is None.
NoPhone == "None"
\* Optional[datetime] first_seen that is None.
NoTime == 0
\* What datetime.utcnow() returns: later than every first_seen a caller passes.
UtcNow == 9

Range(s) == {s[i] : i \in DOMAIN s}
NoDup(s) == \A i, j \in DOMAIN s : s[i] = s[j] => i = j
\* A remove that leaves the list as it is.
Remove_Nothing(s, x) == s
\* list.remove(x): drops the first occurrence of x.
RECURSIVE Remove(_, _)
Remove(s, x) ==
    IF s = <<>> THEN <<>>
    ELSE IF Head(s) = x THEN Tail(s)
    ELSE <<Head(s)>> \o Remove(Tail(s), x)
\* dict.get(k) with None for a missing key.
Get(d, k, none) == IF k \in DOMAIN d THEN d[k] ELSE none
\* d[k] = v on a dict.
Put(d, k, v) == [x \in DOMAIN d \cup {k} |-> IF x = k THEN v ELSE d[x]]

\* --------------------------------------------------------- checksum engine
EntryByte(e) == IF e = "msg" THEN 1 ELSE 2
\* sha256 over the bytes read chunk by chunk: folded left to right, one
\* digest per byte sequence.
RECURSIVE Digest(_)
Digest(c) ==
    IF c = <<>> THEN 1
    ELSE Digest(SubSeq(c, 1, Len(c) - 1)) * 3 + EntryByte(c[Len(c)])

\* A staging area maps the paths that exist to [content, readable].
calculate_checksum(fsys, f) ==
    IF f \notin DOMAIN fsys THEN [exc |-> "FileNotFoundError", digest |-> NoChecksum]
    ELSE IF ~fsys[f].readable THEN [exc |-> "IOError", digest |-> NoChecksum]
    ELSE [exc |-> "none", digest |-> Digest(fsys[f].content)]

has_file_changed_NoExistsTest(fsys, f, stored_checksum) ==
    IF stored_checksum = NoChecksum THEN TRUE
    ELSE IF f \notin DOMAIN fsys THEN FALSE
    ELSE LET r == calculate_checksum(fsys, f)
         IN  IF r.exc # "none" THEN TRUE ELSE r.digest # stored_checksum

has_file_changed(fsys, f, stored_checksum) ==
    IF stored_checksum = NoChecksum THEN TRUE
    ELSE IF f \notin DOMAIN fsys THEN TRUE
    ELSE LET r == calculate_checksum(fsys, f)
         IN  IF r.exc # "none" THEN TRUE ELSE r.digest # stored_checksum

\* ------------------------------------------------------------- data model
FetchState0 == [last_message_id |-> NoMessageId, total_messages_fetched |-> 0]
ProcessState0 ==
    [total_messages_processed |-> 0, file_checksums |-> <<>>, pending_files |-> <<>>]
UserState0(chat_id, phone, first_seen) ==
    [chat_id |-> chat_id, phone |-> phone, first_seen |-> first_seen,
     fetch_state |-> FetchState0, process_state |-> ProcessState0]
Statistics0 ==
    [total_users |-> 0, total_messages_fetched |-> 0, total_messages_processed |-> 0,
     total_media |-> 0, total_transcriptions |-> 0, total_summaries |-> 0,
     total_ocr |-> 0, total_tags |-> 0, total_links_extracted |-> 0]
State0 == [users |-> <<>>, statistics |-> Statistics0]

\* ------------------------------------------- state store, as state changes
\* Each operator is the in-memory effect of one StateManager method on the
\* State s; the caller persists the result when `changed` says so.
Known(s, username) == username \in DOMAIN s.users

ensure_user_exists_Overwrites(s, username, chat_id, phone, first_seen) ==
    LET seen == IF first_seen # NoTime THEN first_seen ELSE UtcNow
        users == Put(s.users, username, UserState0(chat_id, phone, seen))
    IN  [s EXCEPT !.users = users,
                  !.statistics.total_users = Cardinality(DOMAIN users)]

\* first_seen or datetime.utcnow() for a new user; an existing user is
\* returned as it is.
ensure_user_exists(s, username, chat_id, phone, first_seen) ==
    IF Known(s, username) THEN s
    ELSE LET seen == IF first_seen # NoTime THEN first_seen ELSE UtcNow
             users == Put(s.users, username, UserState0(chat_id, phone, seen))
         IN  [s EXCEPT !.users = users,
                       !.statistics.total_users = Cardinality(DOMAIN users)]

\* update_fetch_state storing the count of the call in place of adding it.
update_fetch_state_StoresCount(s, username, last_message_id, message_count) ==
    [s EXCEPT
       !.users[username].fetch_state.last_message_id =
           IF last_message_id # NoMessageId THEN last_message_id ELSE @,
       !.users[username].fetch_state.total_messages_fetched = message_count,
       !.statistics.total_messages_fetched = message_count]

update_fetch_state(s, username, last_message_id, message_count) ==
    [s EXCEPT
       !.users[username].fetch_state.last_message_id =
           IF last_message_id # NoMessageId THEN last_message_id ELSE @,
       !.users[username].fetch_state.total_messages_fetched = @ + message_count,
       !.statistics.total_messages_fetched = @ + message_count]

\* The six counters increment_statistics adds to, by argument name.
StatArgs == {"media", "transcriptions", "summaries", "ocr", "tags", "links"}
StatField(a) ==
    CASE a = "media" -> "total_media"
      [] a = "transcriptions" -> "total_transcriptions"
      [] a = "summaries" -> "total_summaries"
      [] a = "ocr" -> "total_ocr"
      [] a = "tags" -> "total_tags"
      [] a = "links" -> "total_links_extracted"

\* d maps each argument name to the amount passed for it.
increment_statistics(s, d) ==
    [s EXCEPT !.statistics =
        [k \in DOMAIN s.statistics |->
            IF \E a \in StatArgs : StatField(a) = k
            THEN s.statistics[k] + d[CHOOSE a \in StatArgs : StatField(a) = k]
            ELSE s.statistics[k]]]

add_pending_file_NoMembershipTest(s, username, filepath) ==
    [s EXCEPT !.users[username].process_state.pending_files = Append(@, filepath)]

add_pending_file(s, username, filepath) ==
    IF filepath \notin Range(s.users[username].process_state.pending_files)
    THEN [s EXCEPT !.users[username].process_state.pending_files = Append(@, filepath)]
    ELSE s

get_pending_files(s, username) ==
    IF Known(s, username) THEN s.users[username].process_state.pending_files ELSE <<>>

get_file_checksum(s, username, filepath) ==
    IF Known(s, username)
    THEN Get(s.users[username].process_state.file_checksums, filepath, NoChecksum)
    ELSE NoChecksum

mark_file_processed_KeepsPending(s, username, filepath, checksum, message_count) ==
    [s EXCEPT
       !.users[username].process_state.file_checksums = Put(@, filepath, checksum),
       !.users[username].process_state.total_messages_processed = @ + message_count,
       !.statistics.total_messages_processed = @ + message_count]

\* A mark_file_processed that counts for the user and not globally.
mark_file_processed_UserCountOnly(s, username, filepath, checksum, message_count) ==
    [s EXCEPT
       !.users[username].process_state.file_checksums = Put(@, filepath, checksum),
       !.users[username].process_state.pending_files =
           IF filepath \in Range(@) THEN Remove(@, filepath) ELSE @,
       !.users[username].process_state.total_messages_processed = @ + message_count]

mark_file_processed(s, username, filepath, checksum, message_count) ==
    [s EXCEPT
       !.users[username].process_state.file_checksums = Put(@, filepath, checksum),
       !.users[username].process_state.pending_files =
           IF filepath \in Range(@) THEN Remove(@, filepath) ELSE @,
       !.users[username].process_state.total_messages_processed = @ + message_count,
       !.statistics.total_messages_processed = @ + message_count]

\* ---------------------------------------------------------- persistence
StateFile == "state.json"
BakFile == "state.json.bak"
CorruptFile == "state.json.backup"
temp_file_InPlace == "state.json"
temp_file == "state.tmp"

\* model_dump(mode="json") and json.dump: an Optional field is written as
\* null (here <<>>) or as its value (here <<v>>); State(**json.load(f)) reads
\* it back.
Optional_dump(v, none) == IF v = none THEN <<>> ELSE <<v>>
Optional_parse(j, none) == IF j = <<>> THEN none ELSE j[1]
model_dump(s) ==
    [users |-> [u \in DOMAIN s.users |->
                  [s.users[u] EXCEPT
                     !.phone = Optional_dump(@, NoPhone),
                     !.first_seen = Optional_dump(@, NoTime),
                     !.fetch_state.last_message_id = Optional_dump(@, NoMessageId)]],
     statistics |-> s.statistics]
State_parse(data) ==
    [users |-> [u \in DOMAIN data.users |->
                  [data.users[u] EXCEPT
                     !.phone = Optional_parse(@, NoPhone),
                     !.first_seen = Optional_parse(@, NoTime),
                     !.fetch_state.last_message_id = Optional_parse(@, NoMessageId)]],
     statistics |-> data.statistics]

\* d without key k.
Drop(d, k) == [x \in DOMAIN d \ {k} |-> d[x]]

\* One whole _write_state: copy to .bak, dump to the temp file, rename.
write_state(fsys, s) ==
    LET bak == IF StateFile \in DOMAIN fsys
               THEN Put(fsys, BakFile, fsys[StateFile]) ELSE fsys
        tmp == Put(bak, temp_file, [complete |-> TRUE, data |-> model_dump(s)])
    IN  Put(Drop(tmp, temp_file), StateFile, tmp[temp_file])

\* What a file can hold besides a dumped State: a document json.load reads
\* whose top level is an object that State(**data) rejects, or one whose top
\* level is no object at all (an array, a number, a string, null).
JsonKinds == {"object", "array"}
OtherJson(k) == [json |-> k]
IsState(data) == "users" \in DOMAIN data
\* _state of a StateManager that has not loaded.
Unloaded == [loaded |-> FALSE]

\* The except clause of load(): only these are caught.
Caught == {"JSONDecodeError", "ValueError"}
\* json.load(f) followed by State(**data): the exception, if any.
Parse_exc(file) ==
    IF ~file.complete THEN "JSONDecodeError"
    ELSE IF IsState(file.data) THEN "none"
    ELSE IF file.data.json = "object" THEN "ValueError"
    ELSE "TypeError"

\* load(): the exception that leaves it, the State it returns and stores,
\* and the directory it leaves.
load(fsys) ==
    IF StateFile \notin DOMAIN fsys
    THEN [exc |-> "none", state |-> State0, fs |-> write_state(fsys, State0)]
    ELSE LET e == Parse_exc(fsys[StateFile])
         IN  IF e = "none"
             THEN [exc |-> "none", state |-> State_parse(fsys[StateFile].data), fs |-> fsys]
             ELSE IF e \in Caught
             THEN [exc |-> "none", state |-> State0,
                   fs |-> write_state(Put(Drop(fsys, StateFile), CorruptFile,
                                          fsys[StateFile]),
                                      State0)]
             ELSE [exc |-> e, state |-> Unloaded, fs |-> fsys]

\* ------------------------------------------------------------- variables
VARIABLES
    mem,        \* StateManager._state
    fs,         \* the state directory: name -> [complete, data]
    wrote,      \* whether the last step executed _write_state
    staging,    \* the staging area: path -> [content, readable]
    output,     \* the processed output, one record per appended entry
    pc,         \* where process_pending_files stands
    run,        \* its arguments and locals
    report,     \* its ProcessingReport
    skip_errors,\* config.processing.skip_errors
    ops,        \* operations started so far
    th,         \* per thread: the store call it is in and where it stands
    lock,       \* StateManager._lock: 0 when free, else the holder
    crashed,    \* the process was killed
    returned,   \* the threads' calls that have ended, in the order they ended
    fetching,   \* the fetch cycle in progress, if any
    result,     \* what the last load() or query gave its caller
    processors, \* MessageProcessor.processors: the handlers, in order
    calls,      \* the handler calls of the last _process_message
    agg         \* where process_all_users stands, and its combined report

vars == <<mem, fs, wrote, staging, output, pc, run, report, skip_errors, ops,
          th, lock, crashed, returned, fetching, result, processors, calls, agg>>
concVars == <<th, lock, crashed, returned, fetching, result, processors, calls, agg>>
threadVars == <<th, lock, crashed, returned, fetching, processors, calls, agg>>
storeVars == <<mem, fs>>
procVars == <<output, pc, run, report, skip_errors>>

\* Checksums a direct caller passes: those of the shortest files.
CallerChecksums == {Digest(<<>>), Digest(<<"msg">>)}

Report0 ==
    [users_processed |-> 0, files_processed |-> 0, messages_processed |-> 0,
     messages_skipped |-> 0, errors |-> 0, error_details |-> <<>>]
\* History of the run before this one: nothing if it returned, or else the
\* file whose message loop an exception left, the messages appended (k) of
\* those parsed (n), and the operation count at that moment.
NoStop ==
    [user |-> "none", file |-> "none", k |-> 0, n |-> 0, reprocess |-> FALSE,
     at |-> 0]
Run0 ==
    [user |-> "alice", reprocess |-> FALSE, pending |-> <<>>,
     idx |-> 0, current_checksum |-> NoChecksum, messages |-> <<>>, mi |-> 0,
     messages_processed |-> 0, out_mark |-> 0, stopped |-> NoStop]

\* A thread outside the store.
Thread0 == [pc |-> "idle", op |-> "none", user |-> "alice", file |-> "a1", tmp |-> 0]
\* No fetch cycle in progress.
Fetching0 == [pc |-> "idle", user |-> "alice", file |-> "a1"]

\* Nothing returned yet.
Result0 == [op |-> "none", exc |-> "none"]

\* The kinds of message, and a handler taken as the kinds its can_process
\* accepts.
Kinds == {"text", "image"}
Handlers == SUBSET Kinds
\* The handler list of a run: the text handler alone.
DefaultProcessors == <<{"text"}>>
\* _find_processor returning the last handler that accepts the message.
RECURSIVE find_processor_LastMatch(_, _, _)
find_processor_LastMatch(L, kind, i) ==
    IF i > Len(L) THEN 0
    ELSE LET later == find_processor_LastMatch(L, kind, i + 1)
         IN  IF later # 0 THEN later ELSE IF kind \in L[i] THEN i ELSE 0
\* _find_processor from handler i on: the position of the first handler
\* whose can_process accepts the message, 0 for None.
RECURSIVE find_processor(_, _, _)
find_processor(L, kind, i) ==
    IF i > Len(L) THEN 0
    ELSE IF kind \in L[i] THEN i
    ELSE find_processor(L, kind, i + 1)

\* _process_message up to the handler's process: the handlers whose
\* can_process was called, the handlers whose process was called, and the
\* exception raised when there is no handler at all.
process_message(L, kind) ==
    LET found == find_processor(L, kind, 1)
        processor == IF found # 0 THEN found ELSE IF L # <<>> THEN 1 ELSE 0
    IN  [kind |-> kind,
         consulted |-> [i \in 1..(IF found # 0 THEN found ELSE Len(L)) |-> i],
         processed |-> IF processor = 0 THEN <<>> ELSE <<processor>>,
         exc |-> IF processor = 0 THEN "ValueError" ELSE "none"]

\* No _process_message yet: no can_process and no process call made.
Calls0 == [kind |-> "none", consulted |-> <<>>, processed |-> <<>>, exc |-> "none"]
\* process_all_users not entered.
Agg0 == [pc |-> "idle", users |-> <<>>, ui |-> 0, reprocess |-> FALSE,
         combined |-> Report0, before |-> 0]

\* StateManager() followed by the first load() on an empty directory; the
\* handler list is left to the specification.
Start ==
    /\ mem = State0
    /\ fs = write_state(<<>>, State0)
    /\ wrote = TRUE
    /\ staging = <<>>
    /\ output = <<>>
    /\ pc = "idle"
    /\ run = Run0
    /\ report = Report0
    /\ skip_errors \in BOOLEAN
    /\ ops = 0
    /\ th = [t \in Threads |-> Thread0]
    /\ lock = 0
    /\ crashed = FALSE
    /\ returned = <<>>
    /\ fetching = Fetching0
    /\ result = Result0
    /\ calls = Calls0
    /\ agg = Agg0

Init == Start /\ processors = DefaultProcessors

\* save(state) replacing the canonical state without writing it.
Save_MemoryOnly(s) ==
    /\ mem' = s
    /\ fs' = fs
    /\ wrote' = FALSE

\* save(state): replace the canonical state and write it.
Save(s) ==
    /\ mem' = s
    /\ fs' = write_state(fs, s)
    /\ wrote' = TRUE

\* No store mutation: the state and its file stay as they are.
NoSave ==
    /\ UNCHANGED storeVars
    /\ wrote' = FALSE

Idle == pc \in {"idle", "done", "raised"}

\* ------------------------------------------------- state store operations
\* A mutator that does not raise for a username not in users.
NotFound_Ignored(s, username) == "none"
\* The `raise ValueError` of a mutator given a username not in users.
NotFound(s, username) == IF ~Known(s, username) THEN "ValueError" ELSE "none"
Returns(op, exc) == [op |-> op, exc |-> exc]

EnsureUserExists(username, chat_id, phone, first_seen) ==
    /\ mem' = ensure_user_exists(mem, username, chat_id, phone, first_seen)
    /\ IF Known(mem, username)
       THEN fs' = fs /\ wrote' = FALSE
       ELSE fs' = write_state(fs, mem') /\ wrote' = TRUE
    /\ UNCHANGED <<staging, ops>>
    /\ UNCHANGED procVars

UpdateFetchState(username, last_message_id, message_count) ==
    /\ ops < MaxOps
    /\ ops' = ops + 1
    /\ result' = Returns("update_fetch_state", NotFound(mem, username))
    /\ IF ~Known(mem, username)
       THEN NoSave
       ELSE Save(update_fetch_state(mem, username, last_message_id, message_count))
    /\ UNCHANGED staging
    /\ UNCHANGED procVars

IncrementStatistics(d) ==
    /\ ops < MaxOps
    /\ ops' = ops + 1
    /\ result' = Returns("increment_statistics", "none")
    /\ Save(increment_statistics(mem, d))
    /\ UNCHANGED staging
    /\ UNCHANGED procVars

AddPendingFile(username, filepath) ==
    /\ ops < MaxOps
    /\ ops' = ops + 1
    /\ result' = Returns("add_pending_file", NotFound(mem, username))
    /\ IF ~Known(mem, username)
       THEN NoSave
       ELSE LET s == add_pending_file(mem, username, filepath)
            IN  IF s # mem THEN Save(s) ELSE NoSave
    /\ UNCHANGED staging
    /\ UNCHANGED procVars

MarkFileProcessed(username, filepath, checksum, message_count) ==
    /\ ops < MaxOps
    /\ ops' = ops + 1
    /\ result' = Returns("mark_file_processed", NotFound(mem, username))
    /\ IF ~Known(mem, username)
       THEN NoSave
       ELSE Save(mark_file_processed(mem, username, filepath, checksum, message_count))
    /\ UNCHANGED staging
    /\ UNCHANGED procVars

\* ------------------------------------------------------------ fetch phase
\* The staging directory of each user.
StagingDir(username) == IF username = "alice" THEN {"a1", "a2"} ELSE {"b1"}

\* StagingWriter.append_entry: open(path, "a") and write one entry.
append_entry(fsys, f, e) ==
    IF f \in DOMAIN fsys
    THEN [fsys EXCEPT ![f].content = Append(@, e)]
    ELSE Put(fsys, f, [content |-> <<e>>, readable |-> TRUE])

CanAppend(f) == f \in DOMAIN staging => Len(staging[f].content) < MaxLen

\* Telegram message ids grow: the next one is past every id fetched so far.
NextMessageId == mem.statistics.total_messages_fetched + 1

\* One fetch cycle: stage a message in the user's day file, register the
\* file, advance the fetch state. add_pending_file saves only a change,
\* update_fetch_state always saves.
FetchCycle(username, f, e) ==
    /\ ops < MaxOps
    /\ Known(mem, username)
    /\ f \in StagingDir(username)
    /\ CanAppend(f)
    /\ ops' = ops + 1
    /\ staging' = append_entry(staging, f, e)
    /\ LET s1 == add_pending_file(mem, username, f)
           fs1 == IF s1 # mem THEN write_state(fs, s1) ELSE fs
           s2 == update_fetch_state(s1, username, NextMessageId, 1)
       IN  /\ mem' = s2
           /\ fs' = write_state(fs1, s2)
           /\ wrote' = TRUE
    /\ UNCHANGED procVars

\* ------------------------------------------------------------ environment
\* A staging file is deleted (trudy clean --staging, or by hand).
RemoveFile(f) ==
    /\ ops < MaxOps
    /\ f \in DOMAIN staging
    /\ ops' = ops + 1
    /\ staging' = Drop(staging, f)
    /\ NoSave
    /\ UNCHANGED procVars

\* The permissions of a staging file change: reading it starts or stops failing.
ToggleReadable(f) ==
    /\ ops < MaxOps
    /\ f \in DOMAIN staging
    /\ ops' = ops + 1
    /\ staging' = [staging EXCEPT ![f].readable = ~@]
    /\ NoSave
    /\ UNCHANGED procVars

\* ------------------------------------------------------------- processor
\* A reader that yields the messages of a file last entry first.
RECURSIVE ParseFrom_Reversed(_, _)
ParseFrom_Reversed(c, i) ==
    IF i > Len(c) THEN <<>>
    ELSE ParseFrom_Reversed(c, i + 1) \o (IF c[i] = "msg" THEN <<i>> ELSE <<>>)

\* StagingReader.read_file: the entry indices that parse to a Message, in
\* file order; malformed entries are skipped.
RECURSIVE ParseFrom(_, _)
ParseFrom(c, i) ==
    IF i > Len(c) THEN <<>>
    ELSE (IF c[i] = "msg" THEN <<i>> ELSE <<>>) \o ParseFrom(c, i + 1)

read_file(fsys, f) ==
    IF f \notin DOMAIN fsys THEN [exc |-> "none", messages |-> <<>>]
    ELSE IF ~fsys[f].readable THEN [exc |-> "IOError", messages |-> <<>>]
    ELSE [exc |-> "none", messages |-> ParseFrom(fsys[f].content, 1)]

CurFile == run.pending[run.idx]

\* process_pending_files entered: the report is fresh, the pending list is
\* copied; an empty list returns at once.
Enter(username, reprocess) ==
    /\ report' = Report0
    /\ LET pending == get_pending_files(mem, username)
       IN  /\ run' = [Run0 EXCEPT !.user = username, !.reprocess = reprocess,
                                  !.pending = pending,
                                  !.idx = IF pending = <<>> THEN 0 ELSE 1,
                                  !.stopped = IF pc = "raised" THEN run.stopped
                                               ELSE NoStop]
           /\ pc' = IF pending = <<>> THEN "done" ELSE "exists"
    /\ UNCHANGED <<skip_errors, staging, output>>
    /\ NoSave

\* A call of process_pending_files from the command line.
StartRun(username, reprocess) ==
    /\ Idle
    /\ ops < MaxOps
    /\ ops' = ops + 1
    /\ Enter(username, reprocess)

\* The frame once the coroutine has returned or raised: its arguments and
\* the pending list it copied are kept for inspection, the loop locals die.
Return == [Run0 EXCEPT !.user = run.user, !.reprocess = run.reprocess,
                       !.pending = run.pending, !.stopped = run.stopped]

\* A loop over the pending files that ends after the file at hand.
Continue_EndsRun(rep) ==
    /\ pc' = "done"
    /\ run' = [Run0 EXCEPT !.user = run.user, !.reprocess = run.reprocess,
                           !.pending = run.pending]
    /\ report' = [rep EXCEPT !.users_processed = 1]

\* `continue`, or the end of the loop body: the next pending file, or the
\* end of the run with the report `rep`.
Continue(rep) ==
    IF run.idx < Len(run.pending)
    THEN /\ pc' = "exists"
         /\ run' = [run EXCEPT !.idx = @ + 1]
         /\ report' = rep
    ELSE /\ pc' = "done"
         /\ run' = Return
         /\ report' = [rep EXCEPT !.users_processed = 1]

\* An outer except clause that never raises again.
FileError_NeverRaises(rep) ==
    Continue([rep EXCEPT !.errors = @ + 1,
                         !.error_details =
                             Append(@, [kind |-> "File", file |-> CurFile, index |-> 0])])

\* The outer except clause: the file error is recorded and, unless
\* skip_errors, raised again.
FileError(rep) ==
    LET rep2 == [rep EXCEPT !.errors = @ + 1,
                            !.error_details =
                                Append(@, [kind |-> "File", file |-> CurFile, index |-> 0])]
    IN  IF skip_errors
        THEN Continue(rep2)
        ELSE /\ pc' = "raised"
             /\ run' = [Return EXCEPT !.stopped =
                           IF pc = "msg"
                           THEN [user |-> run.user, file |-> CurFile,
                                 k |-> run.messages_processed,
                                 n |-> Len(run.messages),
                                 reprocess |-> run.reprocess, at |-> ops]
                           ELSE NoStop]
             /\ report' = rep2

\* The existence test; a missing file is dropped from pending_files.
CheckExists ==
    /\ pc = "exists"
    /\ IF CurFile \notin DOMAIN staging
       THEN LET l == load(fs)
                state == l.state
            IN  IF l.exc # "none"
                THEN FileError(report) /\ NoSave
                ELSE /\ IF /\ Known(state, run.user)
                           /\ CurFile \in Range(state.users[run.user].process_state.pending_files)
                        THEN /\ mem' = [state EXCEPT
                                          !.users[run.user].process_state.pending_files =
                                              Remove(@, CurFile)]
                             /\ fs' = write_state(l.fs, mem')
                             /\ wrote' = TRUE
                        ELSE /\ mem' = state
                             /\ fs' = l.fs
                             /\ wrote' = FALSE
                     /\ Continue(report)
       ELSE /\ pc' = "checksum"
            /\ UNCHANGED <<run, report>>
            /\ NoSave
    /\ UNCHANGED <<skip_errors, staging, output, ops>>

\* current_checksum = calculate_checksum(staging_file)
Checksum ==
    /\ pc = "checksum"
    /\ LET r == calculate_checksum(staging, CurFile)
       IN  IF r.exc # "none"
           THEN FileError(report)
           ELSE /\ pc' = "skiptest"
                /\ run' = [run EXCEPT !.current_checksum = r.digest]
                /\ report' = report
    /\ UNCHANGED <<skip_errors, staging, output, ops>>
    /\ NoSave

\* The skip of an unchanged file.
SkipTest ==
    /\ pc = "skiptest"
    /\ LET stored_checksum == get_file_checksum(mem, run.user, CurFile)
       IN  IF ~run.reprocess /\ ~has_file_changed(staging, CurFile, stored_checksum)
           THEN Continue([report EXCEPT !.messages_skipped = @ + 1])
           ELSE /\ pc' = "parse"
                /\ UNCHANGED <<run, report>>
    /\ UNCHANGED <<skip_errors, staging, output, ops>>
    /\ NoSave

\* A run that takes the file an exception interrupted up again after the
\* messages already appended.
Parse_Resumes ==
    /\ pc = "parse"
    /\ LET r == read_file(staging, CurFile)
           k == IF run.stopped.user = run.user /\ run.stopped.file = CurFile
                THEN run.stopped.k ELSE 0
       IN  IF r.exc # "none"
           THEN /\ FileError(report)
                /\ NoSave
           ELSE IF r.messages = <<>>
           THEN /\ Save(mark_file_processed(mem, run.user, CurFile,
                                            run.current_checksum, 0))
                /\ Continue(report)
           ELSE /\ pc' = "msg"
                /\ run' = [run EXCEPT !.messages = r.messages,
                                      !.mi = IF k < Len(r.messages) THEN k + 1 ELSE 1,
                                      !.messages_processed = 0,
                                      !.out_mark = Len(output)]
                /\ report' = report
                /\ NoSave
    /\ UNCHANGED <<skip_errors, staging, output, ops>>

\* The file is read; a file without messages is committed with count 0.
Parse ==
    /\ pc = "parse"
    /\ LET r == read_file(staging, CurFile)
       IN  IF r.exc # "none"
           THEN /\ FileError(report)
                /\ NoSave
           ELSE IF r.messages = <<>>
           THEN /\ Save(mark_file_processed(mem, run.user, CurFile,
                                            run.current_checksum, 0))
                /\ Continue(report)
           ELSE /\ pc' = "msg"
                /\ run' = [run EXCEPT !.messages = r.messages, !.mi = 1,
                                      !.messages_processed = 0,
                                      !.out_mark = Len(output)]
                /\ report' = report
                /\ NoSave
    /\ UNCHANGED <<skip_errors, staging, output, ops>>

\* A message loop that a failure ends, the file being committed at once.
ProcessMessage_SkipsRest(ok) ==
    /\ pc = "msg"
    /\ LET index == run.messages[run.mi]
           last == run.mi = Len(run.messages)
       IN  IF ok /\ processors # <<>>
           THEN /\ output' = Append(output, [user |-> run.user, file |-> CurFile,
                                             index |-> index])
                /\ run' = [run EXCEPT !.messages_processed = @ + 1,
                                      !.mi = IF last THEN @ ELSE @ + 1]
                /\ report' = [report EXCEPT !.messages_processed = @ + 1]
                /\ pc' = IF last THEN "commit" ELSE "msg"
           ELSE /\ output' = output
                /\ run' = run
                /\ report' = [report EXCEPT
                                 !.errors = @ + 1,
                                 !.error_details =
                                     Append(@, [kind |-> "Message", file |-> CurFile,
                                                index |-> index])]
                /\ pc' = "commit"
    /\ UNCHANGED <<skip_errors, staging, ops>>
    /\ NoSave

\* One message: handler, tagger and processed writer either all succeed
\* (ok) or one of them raises; without any handler _process_message raises.
ProcessMessage(ok) ==
    /\ pc = "msg"
    /\ LET index == run.messages[run.mi]
           last == run.mi = Len(run.messages)
       IN  IF ok /\ processors # <<>>
           THEN /\ output' = Append(output, [user |-> run.user, file |-> CurFile,
                                             index |-> index])
                /\ run' = [run EXCEPT !.messages_processed = @ + 1,
                                      !.mi = IF last THEN @ ELSE @ + 1]
                /\ report' = [report EXCEPT !.messages_processed = @ + 1]
                /\ pc' = IF last THEN "commit" ELSE "msg"
           ELSE LET rep == [report EXCEPT
                              !.errors = @ + 1,
                              !.error_details =
                                  Append(@, [kind |-> "Message", file |-> CurFile,
                                             index |-> index])]
                IN  /\ output' = output
                    /\ IF skip_errors
                       THEN /\ run' = [run EXCEPT !.mi = IF last THEN @ ELSE @ + 1]
                            /\ report' = rep
                            /\ pc' = IF last THEN "commit" ELSE "msg"
                       ELSE FileError(rep)
    /\ UNCHANGED <<skip_errors, staging, ops>>
    /\ NoSave

Commit_CountsAttempted ==
    /\ pc = "commit"
    /\ Save(mark_file_processed(mem, run.user, CurFile, run.current_checksum,
                                Len(run.messages)))
    /\ Continue([report EXCEPT !.files_processed = @ + 1])
    /\ UNCHANGED <<skip_errors, staging, output, ops>>

\* The file is marked processed with the checksum taken before parsing.
Commit ==
    /\ pc = "commit"
    /\ Save(mark_file_processed(mem, run.user, CurFile, run.current_checksum,
                                run.messages_processed))
    /\ Continue([report EXCEPT !.files_processed = @ + 1])
    /\ UNCHANGED <<skip_errors, staging, output, ops>>

\* The steps of a run; the handlers' outcomes are drawn from oks.
RunStep(oks) ==
    \/ CheckExists
    \/ Checksum
    \/ SkipTest
    \/ Parse
    \/ \E ok \in oks : ProcessMessage(ok)
    \/ Commit

\* The chat id the fetcher discovers for each user.
ChatIdOf(username) == IF username = "alice" THEN 41 ELSE 42

Register == \E u \in Users : EnsureUserExists(u, ChatIdOf(u), NoPhone, NoTime)

Fetch == \E u \in Users : \E f \in StagingDir(u), e \in Entries : FetchCycle(u, f, e)

\* Direct calls of the store by the fetch phase's callers.
StoreCall ==
    \/ \E u \in Users : \E f \in StagingDir(u) : AddPendingFile(u, f)
    \/ \E u \in Users : \E f \in StagingDir(u), c \in CallerChecksums, n \in 0..MaxCount :
           MarkFileProcessed(u, f, c, n)

Environment ==
    \/ \E f \in Files : RemoveFile(f)
    \/ \E f \in Files : ToggleReadable(f)

\* The sequential program: store calls, fetch cycles and environment steps
\* happen between processor runs, never inside one.
Next ==
    \/ Idle /\ Register /\ UNCHANGED concVars
    \/ Idle /\ Fetch /\ UNCHANGED concVars
    \/ Idle /\ StoreCall /\ UNCHANGED threadVars
    \/ Idle /\ Environment /\ UNCHANGED concVars
    \/ (\E u \in Users, r \in BOOLEAN : StartRun(u, r)) /\ UNCHANGED concVars
    \/ RunStep(BOOLEAN) /\ UNCHANGED concVars

Spec == Init /\ [][Next]_vars

\* Fetch cycles and processor runs alone, one after the other, with handlers
\* that succeed; reprocess is drawn from rs.
PipelineNext(rs) ==
    \/ Idle /\ Register /\ UNCHANGED concVars
    \/ Idle /\ Fetch /\ UNCHANGED concVars
    \/ (\E u \in Users, r \in rs : StartRun(u, r)) /\ UNCHANGED concVars
    \/ RunStep({TRUE}) /\ UNCHANGED concVars

SpecPipeline == Init /\ [][PipelineNext({FALSE})]_vars

SpecReprocess == Init /\ [][PipelineNext(BOOLEAN)]_vars

\* ------------------------------------------------ the store taken alone
\* What the callers of ensure_user_exists pass for a user: the profile the
\* fetcher discovered, or another one.
Profiles ==
    {[chat_id |-> 41, phone |-> NoPhone, first_seen |-> NoTime],
     [chat_id |-> 42, phone |-> "+1", first_seen |-> 1]}
MessageIds == {NoMessageId, 1, 2}
\* increment_statistics called with at most one non-zero argument.
Increments ==
    {d \in [StatArgs -> 0..MaxCount] : Cardinality({a \in StatArgs : d[a] # 0}) <= 1}

RegisterAny ==
    \E u \in Users, p \in Profiles : EnsureUserExists(u, p.chat_id, p.phone, p.first_seen)

\* Every mutating operation, for known and unknown users.
Mutation ==
    \/ \E u \in Users, id \in MessageIds, n \in 0..MaxCount : UpdateFetchState(u, id, n)
    \/ \E d \in Increments : IncrementStatistics(d)
    \/ StoreCall

\* The store's operations one after another, with fetch cycles and runs.
StoreNext ==
    \/ Idle /\ RegisterAny /\ UNCHANGED concVars
    \/ (Idle /\ ops < MaxStoreOps) /\ Mutation /\ UNCHANGED threadVars
    \/ (Idle /\ ops < MaxStoreOps /\ \E u \in Users : \E f \in StagingDir(u) :
            FetchCycle(u, f, "msg")) /\ UNCHANGED concVars
    \/ (ops < MaxStoreOps /\ \E u \in Users : StartRun(u, FALSE)) /\ UNCHANGED concVars
    \/ RunStep({TRUE}) /\ UNCHANGED concVars

SpecStore == Init /\ [][StoreNext]_vars

\* ------------------------------------------------------- process_all_users
aggFrame == <<th, lock, crashed, returned, fetching, result, processors, calls>>

\* The lists without repetition of the members of S, every member listed.
Orderings(S) ==
    {q \in [1..Cardinality(S) -> S] : \A i, j \in DOMAIN q : q[i] = q[j] => i = j}
\* users_to_process: the users asked for that the state knows, in the
\* order asked, or all users of the state in the order of its dict.
UsersToProcess(s) == UNION {Orderings(S) : S \in SUBSET DOMAIN s.users}

\* combined_report += report, field by field.
Merged(c, r) ==
    [c EXCEPT !.files_processed = @ + r.files_processed,
              !.messages_processed = @ + r.messages_processed,
              !.messages_skipped = @ + r.messages_skipped,
              !.errors = @ + r.errors,
              !.error_details = @ \o r.error_details]
\* A handler of the per-user exception that gives up the whole run.
UserFailed_Aborts(a, username) ==
    [a EXCEPT !.combined.errors = @ + 1,
              !.combined.error_details = Append(@, [kind |-> "User", user |-> username]),
              !.pc = "returned"]
\* except Exception: the error of the user is recorded, the loop goes on.
UserFailed(a, username) ==
    [a EXCEPT !.combined.errors = @ + 1,
              !.combined.error_details = Append(@, [kind |-> "User", user |-> username]),
              !.ui = @ + 1,
              !.pc = "next"]

InAll == agg.pc \in {"next", "inner"}

\* process_all_users entered: the state is loaded and the users chosen.
StartAll(reprocess) ==
    /\ Idle
    /\ ~InAll
    /\ ops < MaxOps
    /\ ops' = ops + 1
    /\ LET l == load(fs)
       IN  /\ mem' = l.state
           /\ fs' = l.fs
           /\ wrote' = (l.fs # fs)
           /\ IF l.exc # "none"
              THEN agg' = [Agg0 EXCEPT !.pc = "raised"]
              ELSE \E users \in UsersToProcess(l.state) :
                       agg' = [pc |-> "next", users |-> users, ui |-> 1,
                               reprocess |-> reprocess, combined |-> Report0,
                               before |-> l.state.statistics.total_messages_processed]
    /\ UNCHANGED <<staging, output, pc, run, report, skip_errors>>
    /\ UNCHANGED aggFrame

\* report = await self.process_pending_files(username, reprocess, ...)
CallUser ==
    /\ agg.pc = "next"
    /\ agg.ui <= Len(agg.users)
    /\ Enter(agg.users[agg.ui], agg.reprocess)
    /\ agg' = [agg EXCEPT !.pc = "inner"]
    /\ UNCHANGED ops
    /\ UNCHANGED aggFrame

\* The call returned: its report is merged into the combined one.
MergeReport ==
    /\ agg.pc = "inner"
    /\ pc = "done"
    /\ agg' = [agg EXCEPT !.combined = Merged(@, report), !.ui = @ + 1, !.pc = "next"]
    /\ NoSave
    /\ UNCHANGED <<staging, output, pc, run, report, skip_errors, ops>>
    /\ UNCHANGED aggFrame

\* The call raised.
CatchUser ==
    /\ agg.pc = "inner"
    /\ pc = "raised"
    /\ agg' = UserFailed(agg, agg.users[agg.ui])
    /\ NoSave
    /\ UNCHANGED <<staging, output, pc, run, report, skip_errors, ops>>
    /\ UNCHANGED aggFrame

\* The loop is over: combined_report.users_processed = len(users_to_process).
ReturnAll ==
    /\ agg.pc = "next"
    /\ agg.ui > Len(agg.users)
    /\ agg' = [agg EXCEPT !.combined.users_processed = Len(agg.users), !.pc = "returned"]
    /\ NoSave
    /\ UNCHANGED <<staging, output, pc, run, report, skip_errors, ops>>
    /\ UNCHANGED aggFrame

AllNext ==
    \/ (Idle /\ ~InAll /\ Register) /\ UNCHANGED concVars
    \/ (Idle /\ ~InAll /\ \E u \in Users : \E f \in StagingDir(u) : FetchCycle(u, f, "msg"))
           /\ UNCHANGED concVars
    \/ (Idle /\ ~InAll /\ \E f \in Files : ToggleReadable(f)) /\ UNCHANGED concVars
    \/ \E r \in BOOLEAN : StartAll(r)
    \/ CallUser
    \/ (agg.pc = "inner" /\ RunStep(BOOLEAN)) /\ UNCHANGED concVars
    \/ MergeReport
    \/ CatchUser
    \/ ReturnAll

\* The handler list may be empty.
InitAll == Start /\ processors \in {<<>>, DefaultProcessors}
SpecAll == InitAll /\ [][AllNext]_vars

\* ------------------------------------------------------------ the queries
\* A list object handed to a caller: its items, and the user whose
\* pending_files it is when it is that very object ("none" when it is a
\* list of its own).
NewList(items) == [items |-> items, owner |-> "none"]
\* Handing out the State's own list.
copy_SameObject(username, items) == [items |-> items, owner |-> username]
\* pending_files.copy()
copy(username, items) == NewList(items)

GetPendingFiles(username) ==
    /\ result' = [op |-> "get_pending_files", exc |-> "none",
                  value |-> IF Known(mem, username)
                            THEN copy(username,
                                      mem.users[username].process_state.pending_files)
                            ELSE NewList(<<>>)]
    /\ NoSave
    /\ UNCHANGED <<staging, ops>>
    /\ UNCHANGED procVars
    /\ UNCHANGED threadVars

GetFileChecksum(username, filepath) ==
    /\ result' = [op |-> "get_file_checksum", exc |-> "none",
                  value |-> get_file_checksum(mem, username, filepath)]
    /\ NoSave
    /\ UNCHANGED <<staging, ops>>
    /\ UNCHANGED procVars
    /\ UNCHANGED threadVars

\* The caller appends to the list get_pending_files gave it; a list that is
\* the State's own changes in the State too (in memory only).
CallerAppends(filepath) ==
    /\ result.op = "get_pending_files"
    /\ Len(result.value.items) <= MaxLen
    /\ result' = [result EXCEPT !.value.items = Append(@, filepath)]
    /\ mem' = IF result.value.owner = "none"
              THEN mem
              ELSE [mem EXCEPT !.users[result.value.owner].process_state.pending_files =
                                   Append(@, filepath)]
    /\ fs' = fs
    /\ wrote' = FALSE
    /\ UNCHANGED <<staging, ops>>
    /\ UNCHANGED procVars
    /\ UNCHANGED threadVars

QueryNext ==
    \/ Register /\ UNCHANGED concVars
    \/ (ops < MaxStoreOps /\ StoreCall) /\ UNCHANGED threadVars
    \/ \E u \in Users : GetPendingFiles(u)
    \/ \E u \in Users, f \in Files : GetFileChecksum(u, f)
    \/ \E f \in Files : CallerAppends(f)

SpecQuery == Init /\ [][QueryNext]_vars

\* -------------------------------------------- a restart on a damaged file
\* What the state file can be made to hold from outside: its present
\* document cut short, or a document of another kind.
Damage(fsys) ==
    {[complete |-> FALSE,
      data |-> IF StateFile \in DOMAIN fsys THEN fsys[StateFile].data
               ELSE model_dump(State0)]}
    \cup {[complete |-> TRUE, data |-> OtherJson(k)] : k \in JsonKinds}

DamageStateFile(doc) ==
    /\ fs' = Put(fs, StateFile, doc)
    /\ wrote' = FALSE
    /\ UNCHANGED <<mem, staging, ops>>
    /\ UNCHANGED procVars
    /\ UNCHANGED concVars

RemoveStateFile ==
    /\ StateFile \in DOMAIN fs
    /\ fs' = Drop(fs, StateFile)
    /\ wrote' = FALSE
    /\ UNCHANGED <<mem, staging, ops>>
    /\ UNCHANGED procVars
    /\ UNCHANGED concVars

\* A new StateManager on the same path, and its load().
Reopen ==
    /\ LET l == load(fs)
       IN  /\ mem' = l.state
           /\ fs' = l.fs
           /\ wrote' = (l.exc = "none" /\ l.fs # fs)
           /\ result' = [op |-> "load", exc |-> l.exc]
    /\ UNCHANGED <<staging, ops>>
    /\ UNCHANGED procVars
    /\ UNCHANGED threadVars

\* A manager whose load() raised holds no State; every call on it loads
\* again, which is Reopen.
Loaded == IsState(mem)

LoadNext ==
    \/ (Loaded /\ Register) /\ UNCHANGED concVars
    \/ (Loaded /\ ops < MaxStoreOps /\ \E u \in Users : UpdateFetchState(u, 1, 1))
           /\ UNCHANGED threadVars
    \/ \E doc \in Damage(fs) : DamageStateFile(doc)
    \/ RemoveStateFile
    \/ Reopen

SpecLoad == Init /\ [][LoadNext]_vars

\* ------------------------------------------- fetch racing with a run
\* The first half of a fetch cycle: the entry is appended to the day file.
FetchAppend(username, f, e) ==
    /\ fetching.pc = "idle"
    /\ ops < MaxOps
    /\ Known(mem, username)
    /\ f \in StagingDir(username)
    /\ CanAppend(f)
    /\ ops' = ops + 1
    /\ staging' = append_entry(staging, f, e)
    /\ fetching' = [pc |-> "appended", user |-> username, file |-> f]
    /\ NoSave
    /\ UNCHANGED procVars
    /\ UNCHANGED <<th, lock, crashed, returned, result, processors, calls, agg>>

\* The second half: the file is registered and the fetch state advanced.
FetchRegister ==
    /\ fetching.pc = "appended"
    /\ LET s1 == add_pending_file(mem, fetching.user, fetching.file)
           fs1 == IF s1 # mem THEN write_state(fs, s1) ELSE fs
           s2 == update_fetch_state(s1, fetching.user, NextMessageId, 1)
       IN  /\ mem' = s2
           /\ fs' = write_state(fs1, s2)
           /\ wrote' = TRUE
    /\ fetching' = Fetching0
    /\ UNCHANGED <<staging, ops>>
    /\ UNCHANGED procVars
    /\ UNCHANGED <<th, lock, crashed, returned, result, processors, calls, agg>>

\* The fetch phase and the process phase run side by side on one
\* StateManager: the steps of a fetch cycle fall between the steps of a run.
RaceNext ==
    \/ Idle /\ Register /\ UNCHANGED concVars
    \/ \E u \in Users : \E f \in StagingDir(u) : FetchAppend(u, f, "msg")
    \/ FetchRegister
    \/ (\E u \in Users : StartRun(u, FALSE)) /\ UNCHANGED concVars
    \/ RunStep({TRUE}) /\ UNCHANGED concVars

SpecRace == Init /\ [][RaceNext]_vars

\* ------------------------------------- threads sharing the StateManager
\* A thread executes one store call statement by statement. Only save()
\* takes the lock; the statements before it run without it. An augmented
\* assignment reads the attribute and stores the sum in two steps.
StoreOps == {"add_pending_file", "mark_file_processed", "update_fetch_state"}
\* The arguments the threads pass besides the user and the path.
CallChecksum == Digest(<<"msg">>)
CallCount == 1

Live == ~crashed
Active == {t \in Threads : th[t].pc # "idle"}
Goto(t, p) == th' = [th EXCEPT ![t].pc = p]
\* The call of thread t ends: normally ("ok") or with an exception.
End(t, outcome) ==
    /\ th' = [th EXCEPT ![t] = Thread0]
    /\ returned' = Append(returned, [op |-> th[t].op, user |-> th[t].user,
                                     file |-> th[t].file, id |-> t,
                                     outcome |-> outcome])
ThreadFrame == <<staging, output, pc, run, report, skip_errors, ops, fetching, crashed,
                 result, processors, calls, agg>>

Call(t, op, username, f) ==
    /\ Live
    /\ th[t].pc = "idle"
    /\ Len(returned) + Cardinality(Active) < MaxCalls
    /\ Known(mem, username)
    /\ th' = [th EXCEPT ![t] = [pc |-> "enter", op |-> op, user |-> username,
                                file |-> f, tmp |-> 0]]
    /\ NoSave
    /\ UNCHANGED <<lock, returned>>
    /\ UNCHANGED ThreadFrame

\* add_pending_file: the membership test.
TestPending(t) ==
    /\ Live
    /\ th[t].pc = "enter"
    /\ th[t].op = "add_pending_file"
    /\ IF th[t].file \notin Range(mem.users[th[t].user].process_state.pending_files)
       THEN Goto(t, "append") /\ UNCHANGED returned
       ELSE End(t, "ok")
    /\ NoSave
    /\ UNCHANGED lock
    /\ UNCHANGED ThreadFrame

\* add_pending_file: pending_files.append(filepath_str).
AppendPending(t) ==
    /\ Live
    /\ th[t].pc = "append"
    /\ mem' = [mem EXCEPT !.users[th[t].user].process_state.pending_files =
                              Append(@, th[t].file)]
    /\ Goto(t, "acquire")
    /\ wrote' = FALSE
    /\ UNCHANGED <<fs, lock, returned>>
    /\ UNCHANGED ThreadFrame

\* mark_file_processed: the checksum is stored, pending_files is tested.
SetChecksum(t) ==
    /\ Live
    /\ th[t].pc = "enter"
    /\ th[t].op = "mark_file_processed"
    /\ mem' = [mem EXCEPT !.users[th[t].user].process_state.file_checksums =
                              Put(@, th[t].file, CallChecksum)]
    /\ Goto(t, IF th[t].file \in Range(mem.users[th[t].user].process_state.pending_files)
               THEN "remove" ELSE "read_user")
    /\ wrote' = FALSE
    /\ UNCHANGED <<fs, lock, returned>>
    /\ UNCHANGED ThreadFrame

\* mark_file_processed: pending_files.remove(filepath_str); list.remove
\* raises ValueError when the element is gone.
RemovePending(t) ==
    /\ Live
    /\ th[t].pc = "remove"
    /\ IF th[t].file \in Range(mem.users[th[t].user].process_state.pending_files)
       THEN /\ mem' = [mem EXCEPT !.users[th[t].user].process_state.pending_files =
                                      Remove(@, th[t].file)]
            /\ Goto(t, "read_user")
            /\ UNCHANGED returned
       ELSE /\ mem' = mem
            /\ End(t, "ValueError")
    /\ wrote' = FALSE
    /\ UNCHANGED <<fs, lock>>
    /\ UNCHANGED ThreadFrame

\* update_fetch_state: last_message_id is stored.
SetLastMessageId(t) ==
    /\ Live
    /\ th[t].pc = "enter"
    /\ th[t].op = "update_fetch_state"
    /\ mem' = [mem EXCEPT !.users[th[t].user].fetch_state.last_message_id = t]
    /\ Goto(t, "read_user")
    /\ wrote' = FALSE
    /\ UNCHANGED <<fs, lock, returned>>
    /\ UNCHANGED ThreadFrame

\* The counters `+=` works on, per call.
UserCounter(s, t) ==
    IF th[t].op = "mark_file_processed"
    THEN s.users[th[t].user].process_state.total_messages_processed
    ELSE s.users[th[t].user].fetch_state.total_messages_fetched
GlobalCounter(s, t) ==
    IF th[t].op = "mark_file_processed"
    THEN s.statistics.total_messages_processed
    ELSE s.statistics.total_messages_fetched

\* user_state....total += message_count: the read.
ReadUserCounter(t) ==
    /\ Live
    /\ th[t].pc = "read_user"
    /\ th' = [th EXCEPT ![t].pc = "write_user", ![t].tmp = UserCounter(mem, t)]
    /\ NoSave
    /\ UNCHANGED <<lock, returned>>
    /\ UNCHANGED ThreadFrame

\* ... and the store of the sum.
WriteUserCounter(t) ==
    /\ Live
    /\ th[t].pc = "write_user"
    /\ mem' = IF th[t].op = "mark_file_processed"
              THEN [mem EXCEPT !.users[th[t].user].process_state.total_messages_processed =
                                   th[t].tmp + CallCount]
              ELSE [mem EXCEPT !.users[th[t].user].fetch_state.total_messages_fetched =
                                   th[t].tmp + CallCount]
    /\ Goto(t, "read_global")
    /\ wrote' = FALSE
    /\ UNCHANGED <<fs, lock, returned>>
    /\ UNCHANGED ThreadFrame

\* self._state.statistics.total += message_count: the read.
ReadGlobalCounter(t) ==
    /\ Live
    /\ th[t].pc = "read_global"
    /\ th' = [th EXCEPT ![t].pc = "write_global", ![t].tmp = GlobalCounter(mem, t)]
    /\ NoSave
    /\ UNCHANGED <<lock, returned>>
    /\ UNCHANGED ThreadFrame

\* ... and the store of the sum.
WriteGlobalCounter(t) ==
    /\ Live
    /\ th[t].pc = "write_global"
    /\ mem' = IF th[t].op = "mark_file_processed"
              THEN [mem EXCEPT !.statistics.total_messages_processed = th[t].tmp + CallCount]
              ELSE [mem EXCEPT !.statistics.total_messages_fetched = th[t].tmp + CallCount]
    /\ Goto(t, "acquire")
    /\ wrote' = FALSE
    /\ UNCHANGED <<fs, lock, returned>>
    /\ UNCHANGED ThreadFrame

\* save(): `with self._lock`; self._state = state keeps the shared object.
Acquire(t) ==
    /\ Live
    /\ th[t].pc = "acquire"
    /\ lock = 0
    /\ lock' = t
    /\ Goto(t, "bak")
    /\ NoSave
    /\ UNCHANGED returned
    /\ UNCHANGED ThreadFrame

\* _write_state: shutil.copy2(state_file, backup_file) when the file exists.
Backup(t) ==
    /\ Live
    /\ th[t].pc = "bak"
    /\ fs' = IF StateFile \in DOMAIN fs THEN Put(fs, BakFile, fs[StateFile]) ELSE fs
    /\ Goto(t, "open")
    /\ wrote' = FALSE
    /\ UNCHANGED <<mem, lock, returned>>
    /\ UNCHANGED ThreadFrame

\* _write_state: open(temp_file, "w") creates or truncates the temp file;
\* until json.dump is through, it holds a prefix of the document.
OpenTemp(t) ==
    /\ Live
    /\ th[t].pc = "open"
    /\ fs' = Put(fs, temp_file, [complete |-> FALSE, data |-> model_dump(mem)])
    /\ Goto(t, "dump")
    /\ wrote' = FALSE
    /\ UNCHANGED <<mem, lock, returned>>
    /\ UNCHANGED ThreadFrame

\* _write_state: json.dump(self._state.model_dump(...)) and the close.
Dump(t) ==
    /\ Live
    /\ th[t].pc = "dump"
    /\ fs' = Put(fs, temp_file, [complete |-> TRUE, data |-> model_dump(mem)])
    /\ Goto(t, "rename")
    /\ wrote' = FALSE
    /\ UNCHANGED <<mem, lock, returned>>
    /\ UNCHANGED ThreadFrame

\* _write_state: temp_file.replace(self.state_file).
Rename(t) ==
    /\ Live
    /\ th[t].pc = "rename"
    /\ fs' = Put(Drop(fs, temp_file), StateFile, fs[temp_file])
    /\ Goto(t, "release")
    /\ wrote' = TRUE
    /\ UNCHANGED <<mem, lock, returned>>
    /\ UNCHANGED ThreadFrame

\* The end of the with block, and of the call.
Release(t) ==
    /\ Live
    /\ th[t].pc = "release"
    /\ lock' = 0
    /\ End(t, "ok")
    /\ NoSave
    /\ UNCHANGED ThreadFrame

\* A step of _write_state fails: the exception leaves the with block and
\* the call; the files stay as the steps before it left them.
IOError(t) ==
    /\ Live
    /\ th[t].pc \in {"bak", "open", "dump", "rename"}
    /\ lock' = 0
    /\ End(t, "IOError")
    /\ NoSave
    /\ UNCHANGED ThreadFrame

\* The process is killed while a call is under way.
Kill ==
    /\ Live
    /\ Active # {}
    /\ crashed' = TRUE
    /\ NoSave
    /\ UNCHANGED <<staging, output, pc, run, report, skip_errors, ops, fetching>>
    /\ UNCHANGED <<th, lock, returned, result, processors, calls, agg>>

ThreadStep(t) ==
    \/ TestPending(t)
    \/ AppendPending(t)
    \/ SetChecksum(t)
    \/ RemovePending(t)
    \/ SetLastMessageId(t)
    \/ ReadUserCounter(t)
    \/ WriteUserCounter(t)
    \/ ReadGlobalCounter(t)
    \/ WriteGlobalCounter(t)
    \/ Acquire(t)
    \/ Backup(t)
    \/ OpenTemp(t)
    \/ Dump(t)
    \/ Rename(t)
    \/ Release(t)

\* Users are registered first; then the threads ts call the store, each
\* call statement by statement.
Calls(ts) ==
    \/ (returned = <<>> /\ Active = {} /\ Register) /\ UNCHANGED concVars
    \/ \E t \in ts, op \in StoreOps, u \in Users : \E f \in StagingDir(u) :
           Call(t, op, u, f)
    \/ \E t \in ts : ThreadStep(t)

Faults(ts) ==
    \/ \E t \in ts : IOError(t)
    \/ Kill

\* Several threads on one StateManager, no fault.
SpecThreads == Init /\ [][Calls(Threads)]_vars

\* One thread whose writes can fail and whose process can be killed.
SpecCrash == Init /\ [][Calls({1}) \/ Faults({1})]_vars

\* ------------------------------------------------------------ shorthands
Pending(s, u) == get_pending_files(s, u)
TotalProcessed(s, u) == s.users[u].process_state.total_messages_processed
Stored(u, f) == get_file_checksum(mem, u, f)
\* f exists, can be read, and its bytes are the ones committed for u.
CommittedUnmodified(u, f) ==
    /\ f \in DOMAIN staging
    /\ staging[f].readable
    /\ Stored(u, f) = Digest(staging[f].content)

\* ------------------------------------------------------------------ C1
\* C1: in every state, also after a kill or a failed write, the primary
\* state file exists and is a complete document that load() reads as it is;
\* it changes only in a step that puts a complete document in its place (while
\* a call is under way: only the rename of the complete temp file), and it
\* then holds the state in memory; a kill or an I/O error leaves it as it was.
C1_CrashSafe ==
    /\ [](/\ StateFile \in DOMAIN fs
          /\ fs[StateFile].complete
          /\ load(fs) = [exc |-> "none", state |-> State_parse(fs[StateFile].data),
                         fs |-> fs])
    /\ [][fs'[StateFile] # fs[StateFile] =>
              /\ fs'[StateFile] = [complete |-> TRUE, data |-> model_dump(mem')]
              /\ Active # {} =>
                     \E t \in Threads :
                         /\ th[t].pc = "rename"
                         /\ th'[t].pc = "release"
                         /\ fs[temp_file].complete
                         /\ fs'[StateFile] = fs[temp_file]]_vars
    /\ [][(Kill \/ \E t \in Threads : IOError(t)) => fs'[StateFile] = fs[StateFile]]_vars
\* The process was killed while the temp file was half written: the primary
\* file still holds the version before the change in memory.
C1_Witness ==
    /\ crashed
    /\ temp_file \in DOMAIN fs
    /\ ~fs[temp_file].complete
    /\ fs[StateFile].complete
    /\ State_parse(fs[StateFile].data) # mem
    /\ BakFile \in DOMAIN fs

\* ------------------------------------------------------------------ C2
\* The store before the threads' calls: the registered users, nothing else.
Base ==
    [users |-> [u \in DOMAIN mem.users |-> UserState0(ChatIdOf(u), NoPhone, UtcNow)],
     statistics |-> [Statistics0 EXCEPT !.total_users = Cardinality(DOMAIN mem.users)]]
\* The effect of one call run alone.
Apply(s, c) ==
    CASE c.op = "add_pending_file" -> add_pending_file(s, c.user, c.file)
      [] c.op = "mark_file_processed" ->
             mark_file_processed(s, c.user, c.file, CallChecksum, CallCount)
      [] c.op = "update_fetch_state" -> update_fetch_state(s, c.user, c.id, CallCount)
Orders ==
    {p \in [DOMAIN returned -> DOMAIN returned] : \A i, j \in DOMAIN p : p[i] = p[j] => i = j}
RECURSIVE RunInOrder(_, _, _)
RunInOrder(s, p, i) ==
    IF i > Len(returned) THEN s ELSE RunInOrder(Apply(s, returned[p[i]]), p, i + 1)

\* C2 (as claimed): when the threads' calls have all ended, none has raised,
\* the state in memory is the result of running the calls one after another
\* in some order, and the state file holds that state.
C2_Linearizable ==
    Active = {} =>
        /\ \A i \in DOMAIN returned : returned[i].outcome = "ok"
        /\ \E p \in Orders : RunInOrder(Base, p, 1) = mem
        /\ State_parse(fs[StateFile].data) = mem

\* ------------------------------------------------------------------ C3
\* C3 (as claimed): over fetch cycles and runs with reprocess=false and
\* handlers that succeed, every staged message is appended to the processed
\* output at most once, and between runs the per-user and the global
\* total_messages_processed count each appended message once.
Appended(u) == {i \in DOMAIN output : output[i].user = u}
C3_EachMessageOnce ==
    Idle =>
        /\ NoDup(output)
        /\ \A u \in DOMAIN mem.users :
               TotalProcessed(mem, u) = Cardinality({output[i] : i \in Appended(u)})
        /\ mem.statistics.total_messages_processed = Cardinality(Range(output))

\* ------------------------------------------------------------------ C4
\* C4 (as claimed): whenever no fetch cycle and no run is in progress, every
\* staging file of a user is in that user's pending_files or its stored
\* checksum is the digest of its current content, however the steps of the
\* fetch cycles and of the runs were interleaved.
C4_NoStagedDataLost ==
    (pc \in {"idle", "done"} /\ fetching.pc = "idle") =>
        \A u \in DOMAIN mem.users : \A f \in StagingDir(u) :
            f \in DOMAIN staging =>
                \/ f \in Range(Pending(mem, u))
                \/ Stored(u, f) = Digest(staging[f].content)

\* ------------------------------------------------------------------ C5
\* C5: the step that commits a file with messages removes it from
\* pending_files, stores the checksum taken before parsing (the digest of
\* the file), and adds to the per-user and the global
\* total_messages_processed exactly the number k of entries appended to the
\* processed output for that file; a file that parses to no message is
\* committed with count 0, appends nothing and records no error.
CommitPost(k) ==
    /\ CurFile \notin Range(Pending(mem', run.user))
    /\ get_file_checksum(mem', run.user, CurFile) = run.current_checksum
    /\ run.current_checksum = Digest(staging[CurFile].content)
    /\ TotalProcessed(mem', run.user) = TotalProcessed(mem, run.user) + k
    /\ mem'.statistics.total_messages_processed =
           mem.statistics.total_messages_processed + k
    /\ fs'[StateFile] = [complete |-> TRUE, data |-> model_dump(mem')]
C5_CommitOfFile ==
    [][/\ pc = "commit" =>
            /\ CommitPost(Len(output) - run.out_mark)
            /\ Len(output) - run.out_mark <= Len(run.messages)
            /\ report'.files_processed = report.files_processed + 1
       /\ (pc = "parse" /\ read_file(staging, CurFile) = [exc |-> "none", messages |-> <<>>]) =>
            /\ CommitPost(0)
            /\ output' = output
            /\ report'.errors = report.errors
            /\ report'.error_details = report.error_details]_vars
\* A file of two messages, one of which failed, has been committed.
C5_Witness ==
    /\ pc = "done"
    /\ skip_errors
    /\ report.files_processed = 1
    /\ report.errors = 1
    /\ report.messages_processed = 1
    /\ Len(output) = 1
    /\ mem.statistics.total_messages_processed = 1

\* ------------------------------------------------------------------ C6
\* C6 (as claimed): a run with reprocess=false for a user whose only staging
\* file was committed by an earlier run and has not been modified since
\* processes no message and reports messages_skipped = 1.
OnlyFile(u, f) ==
    /\ f \in StagingDir(u)
    /\ \A g \in StagingDir(u) : g \in DOMAIN staging => g = f
    /\ CommittedUnmodified(u, f)
    /\ read_file(staging, f).messages # <<>>
C6_ReprocessingScenario ==
    \A f \in Files :
        (/\ pc = "done"
         /\ ~run.reprocess
         /\ OnlyFile(run.user, f)
         /\ report.files_processed = 0)
        => (report.messages_processed = 0 /\ report.messages_skipped = 1)

\* ------------------------------------------------------------------ C7
\* C7 (as claimed): a run with reprocess=true for a user whose only staging
\* file is committed and unmodified parses the file, appends its messages
\* and commits the same checksum again.
C7_ForcedReprocessingScenario ==
    \A f \in Files :
        (/\ pc = "done"
         /\ run.reprocess
         /\ OnlyFile(run.user, f))
        => (/\ report.files_processed = 1
            /\ report.messages_processed = Len(read_file(staging, f).messages))

\* ------------------------------------------------------------------ C8
\* The value has_file_changed is specified to return.
Unchanged(f, stored) ==
    /\ stored # NoChecksum
    /\ f \in DOMAIN staging
    /\ staging[f].readable
    /\ Digest(staging[f].content) = stored
Changed(u, f) == has_file_changed(staging, f, Stored(u, f))
Contents == UNION {[1..n -> Entries] : n \in 0..MaxLen}
StoredValues == {NoChecksum} \cup {Digest(c) : c \in Contents}
\* f is the same file, with the same bytes, before and after the step.
SameBytes(f) ==
    /\ f \in DOMAIN staging
    /\ f \in DOMAIN staging'
    /\ staging'[f].content = staging[f].content

\* C8 (as claimed): while the stored checksum of f stays, has_file_changed
\* stays false until the bytes of f change or f is removed, and stays true
\* once it is true.
C8_TrueFromThenOn ==
    [][\A u \in DOMAIN mem.users, f \in Files :
          (Stored(u, f) # NoChecksum /\ Stored(u, f)' = Stored(u, f)) =>
              /\ (~Changed(u, f) /\ SameBytes(f)) => ~Changed(u, f)'
              /\ Changed(u, f) => Changed(u, f)']_vars

\* C8 (amended): has_file_changed is false exactly when a checksum is
\* stored, the file exists, can be read and has that digest; after a commit
\* of the file's digest it is false, it stays false while the file is as it
\* was, and it is true after a step that changes the bytes, removes the file
\* or makes it unreadable, for as long as that lasts.
C8_ChangeDetection ==
    /\ [](\A f \in Files, stored \in StoredValues :
             has_file_changed(staging, f, stored) = ~Unchanged(f, stored))
    /\ [][\A u \in DOMAIN mem.users, f \in Files :
             /\ (pc = "commit" /\ u = run.user /\ f = CurFile) => ~Changed(u, f)'
             /\ (~Changed(u, f) /\ Stored(u, f)' = Stored(u, f)) =>
                    /\ (f \in DOMAIN staging' /\ staging'[f] = staging[f])
                           => ~Changed(u, f)'
                    /\ (f \notin DOMAIN staging' \/ staging'[f] # staging[f])
                           => Changed(u, f)']_vars
\* A committed file has grown by one entry since: it is reported changed.
C8_Witness ==
    \E u \in DOMAIN mem.users, f \in Files :
        /\ f \in DOMAIN staging
        /\ Len(staging[f].content) = 2
        /\ Stored(u, f) = Digest(SubSeq(staging[f].content, 1, 1))
        /\ Changed(u, f)

\* ------------------------------------------------------------------ C9
\* C9: no pending_files holds a path twice; a step keeps the entries that
\* stay in their order and puts new entries behind them; add_pending_file
\* of a path that is already pending changes neither the State nor the
\* state file and does not write.
Keeps(p, q) == SelectSeq(p, LAMBDA x : x \in Range(q))
C9_PendingIsOrderedSet ==
    /\ [](\A u \in DOMAIN mem.users : NoDup(Pending(mem, u)))
    /\ [][\A u \in DOMAIN mem.users :
             LET p == Pending(mem, u)
                 q == Pending(mem', u)
             IN  SubSeq(q, 1, Len(Keeps(p, q))) = Keeps(p, q)]_vars
    /\ [][\A u \in DOMAIN mem.users, f \in Files :
             (AddPendingFile(u, f) /\ f \in Range(Pending(mem, u)))
                 => (mem' = mem /\ fs' = fs /\ ~wrote')]_vars
\* Two paths are pending in the order added; a third call, for one of them,
\* changed nothing.
C9_Witness ==
    /\ pc = "idle"
    /\ ops = 3
    /\ ~wrote
    /\ "alice" \in DOMAIN mem.users
    /\ Pending(mem, "alice") = <<"a2", "a1">>
    /\ DOMAIN mem.users["alice"].process_state.file_checksums = {}
    /\ Pending(mem, "bob") = <<>>
    /\ staging = <<>>

\* ----------------------------------------------------------------- C10
\* C10: mark_file_processed(u, f, c, n) for a known user stores c for f,
\* takes f and only f out of pending_files keeping the order of the rest
\* (nothing when f is not pending), and adds n to the per-user and the
\* global total_messages_processed.
C10_MarkFileProcessed ==
    [][\A u \in DOMAIN mem.users, f \in Files, c \in CallerChecksums, n \in 0..MaxCount :
          MarkFileProcessed(u, f, c, n) =>
              /\ get_file_checksum(mem', u, f) = c
              /\ Pending(mem', u) = SelectSeq(Pending(mem, u), LAMBDA x : x # f)
              /\ f \notin Range(Pending(mem, u)) => Pending(mem', u) = Pending(mem, u)
              /\ TotalProcessed(mem', u) = TotalProcessed(mem, u) + n
              /\ mem'.statistics.total_messages_processed =
                     mem.statistics.total_messages_processed + n
              /\ \A g \in Files \ {f} :
                     get_file_checksum(mem', u, g) = get_file_checksum(mem, u, g)]_vars
\* Of two pending paths the first was marked processed with count 1; the
\* other one is still pending.
C10_Witness ==
    /\ pc = "idle"
    /\ "alice" \in DOMAIN mem.users
    /\ Pending(mem, "alice") = <<"a2">>
    /\ get_file_checksum(mem, "alice", "a1") = Digest(<<"msg">>)
    /\ TotalProcessed(mem, "alice") = 1
    /\ mem.statistics.total_messages_processed = 1
    /\ staging = <<>>

\* ----------------------------------------------------------------- C11
\* C11: ensure_user_exists for a username already in users changes neither
\* the State nor the state file and does not write, whatever chat_id, phone
\* and first_seen it is given; for a new username it adds that user alone,
\* with the chat_id given, and raises total_users by 1. In every step the
\* users stay, with their chat_id, phone and first_seen, and total_users is
\* the number of users.
C11_EnsureUserExistsIdempotent ==
    /\ [][\A u \in Users, p \in Profiles :
             EnsureUserExists(u, p.chat_id, p.phone, p.first_seen) =>
                 IF Known(mem, u)
                 THEN mem' = mem /\ fs' = fs /\ ~wrote'
                 ELSE /\ DOMAIN mem'.users = DOMAIN mem.users \cup {u}
                      /\ mem'.users[u].chat_id = p.chat_id
                      /\ mem'.users[u].phone = p.phone
                      /\ mem'.statistics.total_users = mem.statistics.total_users + 1
                      /\ \A v \in DOMAIN mem.users : mem'.users[v] = mem.users[v]]_vars
    /\ [][\A u \in DOMAIN mem.users :
             /\ u \in DOMAIN mem'.users
             /\ mem'.users[u].chat_id = mem.users[u].chat_id
             /\ mem'.users[u].phone = mem.users[u].phone
             /\ mem'.users[u].first_seen = mem.users[u].first_seen]_vars
    /\ [](mem.statistics.total_users = Cardinality(DOMAIN mem.users))
\* Both users exist, created with different profiles, and the last call of
\* ensure_user_exists, for one of them, wrote nothing.
C11_Witness ==
    /\ ops = 0
    /\ ~wrote
    /\ DOMAIN mem.users = Users
    /\ mem.users["alice"].chat_id = 42
    /\ mem.users["alice"].first_seen = 1
    /\ mem.users["bob"].chat_id = 41
    /\ mem.users["bob"].first_seen = UtcNow
    /\ mem.statistics.total_users = 2

\* ----------------------------------------------------------------- C12
\* C12: in every step (ensure_user_exists, update_fetch_state and
\* mark_file_processed with a count >= 0, increment_statistics with
\* non-negative arguments, add_pending_file, fetch cycles, steps of a process
\* run) every user stays, no user's total_messages_fetched or
\* total_messages_processed decreases, and no field of the global
\* Statistics decreases.
C12_CountersNeverDecrease ==
    [][/\ \A u \in DOMAIN mem.users :
             /\ u \in DOMAIN mem'.users
             /\ mem'.users[u].fetch_state.total_messages_fetched
                    >= mem.users[u].fetch_state.total_messages_fetched
             /\ mem'.users[u].process_state.total_messages_processed
                    >= mem.users[u].process_state.total_messages_processed
       /\ \A k \in DOMAIN mem.statistics : mem'.statistics[k] >= mem.statistics[k]]_vars
\* A user whose fetched counter was raised by one call is the subject of a
\* second update_fetch_state, with count 0, which keeps the counter.
C12_Witness ==
    /\ ops = MaxStoreOps
    /\ wrote
    /\ DOMAIN mem.users = {"alice"}
    /\ mem.users["alice"].fetch_state.total_messages_fetched = 1
    /\ mem.users["alice"].fetch_state.last_message_id = 2
    /\ mem.statistics.total_messages_fetched = 1
    /\ mem.statistics.total_users = 1
    /\ mem.users["alice"].process_state.pending_files = <<>>

\* ----------------------------------------------------------------- C13
\* C13: the fetch watermark never decreases: in every step, and so across
\* every update_fetch_state, each user's fetch_state.last_message_id is at
\* least what it was (a watermark not yet set counting as the lowest); a
\* call without last_message_id leaves it as it is.
C13_WatermarkNeverDecreases ==
    /\ [][\A u \in DOMAIN mem.users :
             mem'.users[u].fetch_state.last_message_id
                 >= mem.users[u].fetch_state.last_message_id]_vars
    /\ [][\A u \in Users, n \in 0..MaxCount :
             UpdateFetchState(u, NoMessageId, n) /\ Known(mem, u) =>
                 mem'.users[u].fetch_state.last_message_id
                     = mem.users[u].fetch_state.last_message_id]_vars

\* ----------------------------------------------------------------- C14
\* C14: load() never fails on a missing or unparsable state file. It
\* returns without raising; where the file is absent, or present but not
\* valid JSON or not a valid State, the State it returns is the fresh
\* default one and is what the primary file holds afterwards; a file that
\* was present and did not validate is afterwards found, as it was, under
\* the name it was renamed to; and the primary file exists and is a
\* parseable State whenever load() returns.
C14_LoadNeverFails ==
    [][Reopen =>
          /\ result'.exc = "none"
          /\ StateFile \in DOMAIN fs'
          /\ Parse_exc(fs'[StateFile]) = "none"
          /\ State_parse(fs'[StateFile].data) = mem'
          /\ StateFile \notin DOMAIN fs => mem' = State0
          /\ (StateFile \in DOMAIN fs /\ Parse_exc(fs[StateFile]) # "none") =>
                 /\ mem' = State0
                 /\ CorruptFile \in DOMAIN fs'
                 /\ fs'[CorruptFile] = fs[StateFile]]_vars

\* ----------------------------------------------------------------- C15
\* C15: every mutation is persisted at once. After each operation the state
\* file exists, is a whole document and reads back, through load() of a new
\* StateManager, as exactly the State in memory, load() leaving the
\* directory as it is; a step that changes the State in memory is a step
\* that writes the state file, and what it writes is the dump of the new
\* State.
C15_PersistedAtOnce ==
    /\ [](/\ StateFile \in DOMAIN fs
          /\ load(fs) = [exc |-> "none", state |-> mem, fs |-> fs])
    /\ [][mem' # mem =>
              /\ wrote'
              /\ fs'[StateFile] = [complete |-> TRUE, data |-> model_dump(mem')]]_vars
\* update_fetch_state has advanced the watermark of a user whose phone is
\* not set, and increment_statistics a global counter: the file holds both,
\* and the optional fields set and not set.
C15_Witness ==
    /\ wrote
    /\ ops = MaxStoreOps
    /\ Known(mem, "alice")
    /\ mem.users["alice"].phone = NoPhone
    /\ mem.users["alice"].fetch_state.last_message_id = 2
    /\ mem.statistics.total_tags = 1
    /\ fs[StateFile].data.users["alice"].phone = <<>>
    /\ fs[StateFile].data.users["alice"].fetch_state.last_message_id = <<2>>
    /\ fs[StateFile].data.statistics.total_tags = 1
    /\ State_parse(fs[BakFile].data) # mem

\* ----------------------------------------------------------------- C16
\* C16: update_fetch_state, add_pending_file and mark_file_processed given
\* a username that is not in users raise ValueError, leave the State in
\* memory and the state directory as they are and write nothing; given a
\* known username they do not raise it.
RejectingCall(u) ==
    \/ \E id \in MessageIds, n \in 0..MaxCount : UpdateFetchState(u, id, n)
    \/ \E f \in StagingDir(u) : AddPendingFile(u, f)
    \/ \E f \in StagingDir(u), c \in CallerChecksums, n \in 0..MaxCount :
           MarkFileProcessed(u, f, c, n)
C16_UnknownUserRejected ==
    [][\A u \in Users :
          RejectingCall(u) =>
              IF Known(mem, u)
              THEN result'.exc = "none"
              ELSE /\ result'.exc = "ValueError"
                   /\ mem' = mem
                   /\ fs' = fs
                   /\ ~wrote']_vars
\* mark_file_processed for a user never registered has raised, after a
\* call that did change the State of the one registered user.
C16_Witness ==
    /\ result = Returns("mark_file_processed", "ValueError")
    /\ ~wrote
    /\ ops = MaxStoreOps
    /\ DOMAIN mem.users = {"alice"}
    /\ mem.users["alice"].process_state.pending_files # <<>>
    /\ State_parse(fs[StateFile].data) = mem

\* ----------------------------------------------------------------- C17
\* C17: the queries are safe and change nothing. get_pending_files returns
\* the user's pending list, or an empty list for an unknown user, as a list
\* of its own: the caller changing it changes nothing in the State.
\* get_file_checksum returns the stored checksum, or none for an unknown
\* user or an unknown file. Neither raises; neither changes the State in
\* memory (users, checksums, pending lists, statistics) or the state file.
C17_QueriesHaveNoEffect ==
    /\ [][\A u \in Users :
             GetPendingFiles(u) =>
                 /\ result'.exc = "none"
                 /\ result'.value.items =
                        IF u \in DOMAIN mem.users
                        THEN mem.users[u].process_state.pending_files ELSE <<>>
                 /\ mem' = mem /\ fs' = fs /\ ~wrote']_vars
    /\ [][\A u \in Users, f \in Files :
             GetFileChecksum(u, f) =>
                 /\ result'.exc = "none"
                 /\ result'.value =
                        IF /\ u \in DOMAIN mem.users
                           /\ f \in DOMAIN mem.users[u].process_state.file_checksums
                        THEN mem.users[u].process_state.file_checksums[f]
                        ELSE NoChecksum
                 /\ mem' = mem /\ fs' = fs /\ ~wrote']_vars
    /\ [][(\E f \in Files : CallerAppends(f)) => mem' = mem /\ fs' = fs]_vars
\* The caller has appended to the list get_pending_files returned for
\* alice, whose pending list in the State still has its one file.
C17_Witness ==
    /\ result.op = "get_pending_files"
    /\ Known(mem, "alice")
    /\ mem.users["alice"].process_state.pending_files = <<"a1">>
    /\ result.value.items = <<"a1", "a2">>
    /\ State_parse(fs[StateFile].data) = mem

\* ----------------------------------------------------------------- C18
\* The messages of the file at hand, by index, that the report holds a
\* message error for, and those the run appended to the processed output.
Failed == {d.index : d \in {e \in Range(report.error_details) :
                                 e.kind = "Message" /\ e.file = CurFile}}
Succeeded == {output[i].index : i \in (run.out_mark + 1)..Len(output)}
\* C18: with skip_errors, when handler, tagger or processed writer raises
\* for a message, errors grows by exactly 1 with the one detail naming that
\* message, nothing is appended or stored for it, and the next message of
\* the file in parse order is the next one attempted (the commit, after
\* the last). When the file is committed every message of it was attempted
\* once, in parse order, and the committed count is the number of messages
\* that succeeded.
C18_MessageFailureIsolated ==
    /\ [][(skip_errors /\ ProcessMessage(FALSE)) =>
              /\ report'.errors = report.errors + 1
              /\ report'.error_details =
                     Append(report.error_details,
                            [kind |-> "Message", file |-> CurFile,
                             index |-> run.messages[run.mi]])
              /\ report'.messages_processed = report.messages_processed
              /\ output' = output
              /\ mem' = mem
              /\ fs' = fs
              /\ run'.messages = run.messages
              /\ IF run.mi < Len(run.messages)
                 THEN pc' = "msg" /\ run'.mi = run.mi + 1
                 ELSE pc' = "commit"]_vars
    /\ [][(skip_errors /\ pc = "commit" /\ pc' # "commit") =>
              /\ Failed \cup Succeeded = Range(run.messages)
              /\ Failed \cap Succeeded = {}
              /\ \A i, j \in (run.out_mark + 1)..Len(output) :
                     i < j => output[i].index < output[j].index
              /\ TotalProcessed(mem', run.user)
                     = TotalProcessed(mem, run.user) + Cardinality(Succeeded)
              /\ CurFile \notin Range(Pending(mem', run.user))
              /\ report'.files_processed = report.files_processed + 1]_vars
\* A run with skip_errors has ended: the first message of a1 failed, the
\* second was processed, and a1 is committed with a count of 1.
C18_Witness ==
    /\ skip_errors
    /\ pc = "done"
    /\ run.pending = <<"a1">>
    /\ report.errors = 1
    /\ report.error_details = <<[kind |-> "Message", file |-> "a1", index |-> 1]>>
    /\ report.messages_processed = 1
    /\ report.files_processed = 1
    /\ output = <<[user |-> "alice", file |-> "a1", index |-> 2]>>
    /\ TotalProcessed(mem, "alice") = 1
    /\ Pending(mem, "alice") = <<>>

\* ----------------------------------------------------------------- C19
\* The step of a run in which an error is recorded in the report.
ErrorStep == pc \in {"exists", "checksum", "parse", "msg"} /\ report'.errors > report.errors
\* C19: without skip_errors, the step that records the first message or
\* file error makes process_pending_files raise: the run ends there, the
\* file at hand is not marked processed (it is still pending, and the State,
\* so its stored checksum and the processed counters, and the state file are
\* as they were), nothing is appended for it, and no step of that run
\* follows: after the raise the report and the processed output stay as they
\* are until a new run starts.
C19_FailFast ==
    /\ [][(~skip_errors /\ ErrorStep) =>
              /\ pc' = "raised"
              /\ report.errors = 0
              /\ mem' = mem
              /\ fs' = fs
              /\ output' = output
              /\ CurFile \in Range(Pending(mem', run.user))
              /\ get_file_checksum(mem', run.user, CurFile) = Stored(run.user, CurFile)
              /\ TotalProcessed(mem', run.user) = TotalProcessed(mem, run.user)]_vars
    /\ [][pc = "raised" =>
              \/ pc' = "raised" /\ report' = report /\ output' = output /\ run' = run
              \/ pc' \in {"exists", "done"} /\ report' = Report0 /\ output' = output]_vars
\* The second message of a1 failed without skip_errors: the run has raised
\* with the first message appended, a1 and the file after it still pending
\* and nothing counted as processed.
C19_Witness ==
    /\ ~skip_errors
    /\ pc = "raised"
    /\ run.pending = <<"a1", "a2">>
    /\ report.errors = 2
    /\ report.error_details = <<[kind |-> "Message", file |-> "a1", index |-> 2],
                                [kind |-> "File", file |-> "a1", index |-> 0]>>
    /\ report.files_processed = 0
    /\ output = <<[user |-> "alice", file |-> "a1", index |-> 1]>>
    /\ Pending(mem, "alice") = <<"a1", "a2">>
    /\ Stored("alice", "a1") = NoChecksum
    /\ TotalProcessed(mem, "alice") = 0

\* ----------------------------------------------------------------- C20
\* Computing the checksum of, or reading and parsing, the file at hand
\* raises.
FileRaises ==
    \/ pc = "checksum" /\ calculate_checksum(staging, CurFile).exc # "none"
    \/ pc = "parse" /\ read_file(staging, CurFile).exc # "none"
\* C20: with skip_errors, a step in which the checksum, the read or the
\* parse of pending file f raises adds exactly 1 to errors and the one
\* detail naming f, leaves the State and the state file as they are, so
\* that f is still pending with its stored checksum, appends nothing, and
\* goes on to the next pending file of the run if there is one (the run
\* ends normally if there is none).
C20_FileFailureIsolated ==
    [][(skip_errors /\ FileRaises /\ pc' # pc) =>
          /\ report'.errors = report.errors + 1
          /\ report'.error_details =
                 Append(report.error_details,
                        [kind |-> "File", file |-> CurFile, index |-> 0])
          /\ report'.files_processed = report.files_processed
          /\ mem' = mem
          /\ fs' = fs
          /\ output' = output
          /\ CurFile \in Range(Pending(mem', run.user))
          /\ get_file_checksum(mem', run.user, CurFile) = Stored(run.user, CurFile)
          /\ IF run.idx < Len(run.pending)
             THEN /\ pc' = "exists"
                  /\ run'.pending = run.pending
                  /\ run'.idx = run.idx + 1
             ELSE pc' = "done"]_vars
\* A run with skip_errors has ended: a1 could not be read and is still
\* pending, and a2, after it, was processed and committed.
C20_Witness ==
    /\ skip_errors
    /\ pc = "done"
    /\ run.pending = <<"a1", "a2">>
    /\ report.errors = 1
    /\ report.error_details = <<[kind |-> "File", file |-> "a1", index |-> 0]>>
    /\ report.files_processed = 1
    /\ Pending(mem, "alice") = <<"a1">>
    /\ Stored("alice", "a1") = NoChecksum
    /\ Stored("alice", "a2") # NoChecksum

\* ----------------------------------------------------------------- C21
\* C21: in process_all_users, when the call for one user raises, the
\* combined report gets exactly one more error, with the one detail naming
\* that user, and the loop goes on with the user after it; the users are
\* called one after the other in the order chosen, each exactly once, and
\* the run returns only after the last one, whichever user failed and
\* whatever skip_errors is.
C21_UserFailureIsolated ==
    /\ [][CatchUser =>
              /\ agg'.combined.errors = agg.combined.errors + 1
              /\ agg'.combined.error_details =
                     Append(agg.combined.error_details,
                            [kind |-> "User", user |-> agg.users[agg.ui]])
              /\ agg'.combined.files_processed = agg.combined.files_processed
              /\ agg'.users = agg.users
              /\ agg'.ui = agg.ui + 1
              /\ agg'.pc = "next"
              /\ mem' = mem]_vars
    /\ [][(InAll /\ agg'.ui # agg.ui) =>
              /\ agg'.ui = agg.ui + 1
              /\ agg.pc = "inner"
              /\ pc \in {"done", "raised"}
              /\ run.user = agg.users[agg.ui]]_vars
    /\ [][(agg.pc = "next" /\ agg' # agg) =>
              IF agg.ui <= Len(agg.users)
              THEN /\ agg'.pc = "inner"
                   /\ run'.user = agg.users[agg.ui]
                   /\ run'.pending = Pending(mem, agg.users[agg.ui])
              ELSE /\ agg'.pc = "returned"
                   /\ agg'.combined.users_processed = Len(agg.users)]_vars
    /\ [][(InAll /\ agg'.pc = "returned") => agg.ui > Len(agg.users)]_vars
\* Without skip_errors the call for alice, the first user, raised on her
\* only file; bob, after her, was processed and his file is committed.
C21_Witness ==
    /\ ~skip_errors
    /\ agg.pc = "returned"
    /\ agg.users = <<"alice", "bob">>
    /\ agg.combined.errors = 1
    /\ agg.combined.error_details = <<[kind |-> "User", user |-> "alice"]>>
    /\ agg.combined.files_processed = 1
    /\ agg.combined.users_processed = 2
    /\ Pending(mem, "alice") # <<>>
    /\ Pending(mem, "bob") = <<>>
    /\ Stored("bob", "b1") # NoChecksum

\* ----------------------------------------------------------------- C22
\* C22: with an empty handler list the first message processed raises an
\* error that is not recorded as a per-message error and ends the command:
\* the run of the user raises whatever skip_errors is, no message, commit or
\* file follows in it, and process_all_users does not go on to another user.
C22_NoHandlerIsFatal ==
    /\ [][(processors = <<>> /\ pc = "msg" /\ pc' # pc) => pc' = "raised"]_vars
    /\ [][(processors = <<>> /\ pc = "msg" /\ report' # report) =>
              /\ pc' = "raised"
              /\ \A i \in DOMAIN report'.error_details :
                     report'.error_details[i].kind # "Message"]_vars
    /\ [][(/\ processors = <<>>
           /\ agg.pc = "inner"
           /\ pc = "raised"
           /\ \E i \in DOMAIN report.error_details :
                  report.error_details[i].kind = "Message") =>
              agg'.pc \notin {"next", "inner"}]_vars

\* ----------------------------------------------------------------- C23
\* The step of a run that finds the pending file at hand missing on disk.
StaleStep ==
    /\ pc = "exists"
    /\ CurFile \notin DOMAIN staging
    /\ <<pc, run>>' # <<pc, run>>
\* C23: when the pending file the run has reached does not exist on disk,
\* the run removes that entry, and no other, from the user's pending_files
\* and persists the state; it records no error, stores no checksum, changes
\* no counter, appends nothing, and goes on to the next pending file (the
\* run ends normally if there is none).
C23_StaleReferenceDropped ==
    [][StaleStep =>
          /\ Pending(mem', run.user)
                 = SelectSeq(Pending(mem, run.user), LAMBDA x : x # CurFile)
          /\ Len(Pending(mem', run.user)) = Len(Pending(mem, run.user)) - 1
          /\ wrote'
          /\ load(fs') = [exc |-> "none", state |-> mem', fs |-> fs']
          /\ report'.errors = report.errors
          /\ report'.error_details = report.error_details
          /\ report'.files_processed = report.files_processed
          /\ report'.messages_processed = report.messages_processed
          /\ mem'.users[run.user].process_state.file_checksums
                 = mem.users[run.user].process_state.file_checksums
          /\ TotalProcessed(mem', run.user) = TotalProcessed(mem, run.user)
          /\ mem'.users[run.user].fetch_state = mem.users[run.user].fetch_state
          /\ mem'.statistics = mem.statistics
          /\ \A u \in DOMAIN mem.users \ {run.user} : mem'.users[u] = mem.users[u]
          /\ output' = output
          /\ IF run.idx < Len(run.pending)
             THEN /\ pc' = "exists"
                  /\ run'.pending = run.pending
                  /\ run'.idx = run.idx + 1
             ELSE pc' = "done"]_vars
\* A run has ended without error: a1, deleted before the run, was dropped
\* from pending_files with no checksum stored, and a2, after it, committed.
C23_Witness ==
    /\ pc = "done"
    /\ run.pending = <<"a1", "a2">>
    /\ "a1" \notin DOMAIN staging
    /\ Pending(mem, "alice") = <<>>
    /\ Stored("alice", "a1") = NoChecksum
    /\ Stored("alice", "a2") # NoChecksum
    /\ report.errors = 0
    /\ report.files_processed = 1

\* ------------------------------------------------------ handler dispatch
\* The longest handler list.
MaxHandlers == 3
\* The handler lists a MessageProcessor can be built with.
HandlerLists == UNION {[1..n -> Handlers] : n \in 0..MaxHandlers}
\* _process_message(message, ...) for a message of the given kind.
ProcessMessageCall(kind) ==
    /\ calls' = process_message(processors, kind)
    /\ UNCHANGED <<mem, fs, wrote, staging, output, pc, run, report, skip_errors,
                   ops, th, lock, crashed, returned, fetching, result,
                   processors, agg>>
DispatchNext == \E kind \in Kinds : ProcessMessageCall(kind)
InitDispatch == Start /\ processors \in HandlerLists
SpecDispatch == InitDispatch /\ [][DispatchNext]_vars

\* ----------------------------------------------------------------- C24
\* C24: for every message and every non-empty ordered handler list,
\* _process_message raises nothing of its own and calls process on exactly
\* one handler: the first one in list order whose can_process accepts the
\* message, or the first of the list when none accepts it.  can_process is
\* asked of the handlers in list order up to the first that accepts, and of
\* no handler after it.
C24_FirstMatchOrFirst ==
    (calls # Calls0 /\ processors # <<>>) =>
        LET L == processors
            k == calls.kind
            accepting == {i \in 1..Len(L) : k \in L[i]}
        IN  /\ calls.exc = "none"
            /\ Len(calls.processed) = 1
            /\ IF accepting # {}
               THEN \E i \in accepting :
                       /\ \A j \in accepting : i <= j
                       /\ calls.processed = <<i>>
                       /\ calls.consulted = [j \in 1..i |-> j]
               ELSE /\ calls.processed = <<1>>
                    /\ calls.consulted = [j \in 1..Len(L) |-> j]
\* An image message met a list of three handlers of which the second and
\* the third accept it: the second processed it, the third was not asked.
C24_Witness ==
    /\ Len(processors) = 3
    /\ calls.kind = "image"
    /\ "image" \notin processors[1]
    /\ "image" \in processors[2]
    /\ "image" \in processors[3]
    /\ calls.processed = <<2>>
    /\ calls.consulted = <<1, 2>>

\* ----------------------------------------------------------------- C25
\* process_pending_files is inside its loop over the pending files.
InRun == pc \in {"exists", "checksum", "skiptest", "parse", "msg", "commit"}
\* The position of a step within the body of the loop over the files.
Rank(p) ==
    CASE p = "exists" -> 1 [] p = "checksum" -> 2 [] p = "skiptest" -> 3
      [] p = "parse" -> 4 [] p = "msg" -> 5 [] p = "commit" -> 6 [] OTHER -> 7
\* C25: a run takes the files in the order pending_files had when the run
\* started, starting with the first; it never returns to a file it has
\* left and reaches the next one only from the end of the previous one
\* (never from the middle of its messages); within a file the messages are
\* taken in parse order, the order of their entries in the file, one after
\* another, and every output entry is appended for the message at hand.
\* The order is thus a function of the pending list and the files alone.
C25_ProcessingOrder ==
    [][/\ (~InRun /\ InRun') =>
              /\ run'.pending = Pending(mem, run'.user)
              /\ run'.idx = 1
       /\ (InRun /\ InRun') =>
              /\ run'.pending = run.pending
              /\ run'.user = run.user
              /\ \/ /\ run'.idx = run.idx
                    /\ Rank(pc') > Rank(pc) \/ (pc = "msg" /\ pc' = "msg")
                 \/ /\ run'.idx = run.idx + 1
                    /\ pc' = "exists"
                    /\ pc # "msg"
       /\ (InRun /\ pc' = "done") => run.idx = Len(run.pending)
       /\ pc = "msg" =>
              LET content == staging[CurFile].content
              IN  /\ \A i \in 1..Len(run.messages) : content[run.messages[i]] = "msg"
                  /\ \A i \in 1..Len(content) :
                         content[i] = "msg" => i \in Range(run.messages)
                  /\ \A i, j \in 1..Len(run.messages) :
                         i < j => run.messages[i] < run.messages[j]
       /\ (pc = "parse" /\ pc' = "msg") => run'.mi = 1
       /\ (pc = "msg" /\ pc' = "msg") =>
              /\ run'.mi = run.mi + 1
              /\ run'.messages = run.messages
       /\ (pc = "msg" /\ pc' = "commit") => run.mi = Len(run.messages)
       /\ output' # output =>
              /\ pc = "msg"
              /\ output' = Append(output, [user |-> run.user, file |-> CurFile,
                                           index |-> run.messages[run.mi]])
      ]_vars
\* A run over a1, holding two messages, then a2, holding one, has ended:
\* the output has a1's first message, a1's second, then a2's.
C25_Witness ==
    /\ pc = "done"
    /\ run.pending = <<"a1", "a2">>
    /\ output = <<[user |-> "alice", file |-> "a1", index |-> 1],
                  [user |-> "alice", file |-> "a1", index |-> 2],
                  [user |-> "alice", file |-> "a2", index |-> 1]>>

\* -------------------------------------------------------- repeated runs
\* A run is started only while the processed output is shorter than this.
MaxOutput == 2
\* process_pending_files called again, whatever the run before did.
StartAgain(username, reprocess) ==
    /\ Idle
    /\ Len(output) < MaxOutput
    /\ Enter(username, reprocess)
    /\ UNCHANGED ops
\* A few fetch cycles and store calls, and any number of runs between and
\* after them; handlers may fail.
RerunNext ==
    \/ Idle /\ Register /\ UNCHANGED concVars
    \/ (Idle /\ ops < MaxStoreOps /\ Fetch) /\ UNCHANGED concVars
    \/ (Idle /\ ops < MaxStoreOps /\ StoreCall) /\ UNCHANGED threadVars
    \/ (\E u \in Users, r \in BOOLEAN : StartAgain(u, r)) /\ UNCHANGED concVars
    \/ RunStep(BOOLEAN) /\ UNCHANGED concVars
SpecRerun == Init /\ [][RerunNext]_vars

\* ----------------------------------------------------------------- C26
\* The run at hand follows, with no operation in between, a run of the same
\* user that an exception stopped inside the message loop of a file, and it
\* has reached that file.
Resumed ==
    /\ InRun
    /\ run.stopped # NoStop
    /\ run.stopped.user = run.user
    /\ run.stopped.at = ops
    /\ CurFile = run.stopped.file
\* What an interruption inside the message loop leaves behind: from the
\* parse to the exception the state in memory and on disk is untouched, so
\* the file is still pending and its checksum and the counters are what
\* they were; the output has the k messages appended.
InterruptionLeaves ==
    /\ ((pc = "parse" /\ pc' = "msg") \/ pc = "msg") => (mem' = mem /\ fs' = fs)
    /\ (pc = "msg" /\ pc' = "raised") =>
           /\ CurFile \in Range(Pending(mem', run.user))
           /\ Len(output') = run.out_mark + run.messages_processed
           /\ run'.stopped.k = run.messages_processed
           /\ run'.stopped.k < run'.stopped.n
\* Once past the skip test, the run after the interruption reads all n
\* messages, starts with the first, and commits only after the last; nothing
\* but that commit changes the file's checksum or takes it off pending_files.
RedoesWholeFile ==
    Resumed =>
        LET u == run.user
            f == CurFile
        IN  /\ pc = "exists" => pc' = "checksum"
            /\ pc = "checksum" => pc' = "skiptest"
            /\ pc = "parse" =>
                   /\ pc' = "msg"
                   /\ Len(run'.messages) = run.stopped.n
                   /\ run'.mi = 1
                   /\ run'.messages_processed = 0
            /\ pc = "commit" =>
                   /\ run.mi = run.stopped.n
                   /\ Len(output) = run.out_mark + run.messages_processed
                   /\ ~skip_errors => run.messages_processed = run.stopped.n
                   /\ f \notin Range(Pending(mem', u))
                   /\ get_file_checksum(mem', u, f) = run.current_checksum
                   /\ TotalProcessed(mem', u)
                          = TotalProcessed(mem, u) + run.messages_processed
            /\ pc # "commit" =>
                   /\ f \in Range(Pending(mem', u))
                   /\ get_file_checksum(mem', u, f) = get_file_checksum(mem, u, f)
                   /\ TotalProcessed(mem', u) = TotalProcessed(mem, u)
                   /\ mem'.statistics = mem.statistics
retry_failed == TRUE
max_retries == 3
\* A step of the message loop whose message was not appended: its handler,
\* the tagger or the writer raised.
AttemptFailed ==
    /\ pc = "msg"
    /\ output' = output
    /\ <<pc, run, report>>' # <<pc, run, report>>
\* C27 (as claimed): with retry_failed and max_retries > 1, a message whose
\* processing raised is attempted again: the step after the failure is
\* another attempt of the same message of the same file.
C27_FailedMessageRetried ==
    [][(retry_failed /\ max_retries > 1 /\ AttemptFailed) =>
           /\ pc' = "msg"
           /\ run'.idx = run.idx
           /\ run'.mi = run.mi]_vars

\* ---------------------------------------------------- runs repeated for ever
\* process_pending_files(username) called once more, without --reprocess.
Repeat(username) ==
    /\ Idle
    /\ Enter(username, FALSE)
    /\ UNCHANGED ops
RepeatRun(username) == Repeat(username) /\ UNCHANGED concVars
\* A step of the run in progress; the handlers succeed.
RunOn == RunStep({TRUE}) /\ UNCHANGED concVars
\* A few fetch cycles and direct store calls, then nothing but runs: the
\* staging files are modified no more.
ConvergeNext ==
    \/ Idle /\ Register /\ UNCHANGED concVars
    \/ (Idle /\ ops < MaxStoreOps /\ Fetch) /\ UNCHANGED concVars
    \/ (Idle /\ ops < MaxStoreOps /\ StoreCall) /\ UNCHANGED threadVars
    \/ \E u \in Users : RepeatRun(u)
    \/ RunOn
\* A run in progress goes on to its end, and the command is run for every
\* user again and again.
SpecConverge ==
    /\ Init
    /\ [][ConvergeNext]_vars
    /\ WF_vars(RunOn)
    /\ \A u \in Users : SF_vars(RepeatRun(u))

\* ----------------------------------------------------------------- C28
\* C28 (as claimed): once the staging files are modified no more, runs
\* without reprocess and with handlers that do not fail, repeated for ever,
\* empty every user's pending_files for good.
C28_PendingEventuallyEmpty ==
    <>[](\A u \in DOMAIN mem.users : Pending(mem, u) = <<>>)

\* ----------------------------------------------------------------- C29
\* The sum of f over the set S.
RECURSIVE Sum(_, _)
Sum(f, S) ==
    IF S = {} THEN 0
    ELSE LET x == CHOOSE x \in S : TRUE
         IN  f[x] + Sum(f, S \ {x})
\* C29: after any sequence of store operations, fetch cycles and runs from
\* a fresh State, the global statistics agree with the per-user state:
\* total_users is the number of users, total_messages_fetched the sum of
\* the users' fetch_state.total_messages_fetched, total_messages_processed
\* the sum of the users' process_state.total_messages_processed.
C29_StatisticsAgree ==
    LET users == mem.users
        names == DOMAIN users
    IN  /\ mem.statistics.total_users = Cardinality(names)
        /\ mem.statistics.total_messages_fetched
               = Sum([u \in names |-> users[u].fetch_state.total_messages_fetched], names)
        /\ mem.statistics.total_messages_processed
               = Sum([u \in names |-> users[u].process_state.total_messages_processed], names)
\* Two users: alice has fetched a message and bob has processed one; the
\* global counters are the sums.
C29_Witness ==
    /\ DOMAIN mem.users = {"alice", "bob"}
    /\ mem.users["alice"].fetch_state.total_messages_fetched = 1
    /\ mem.users["bob"].fetch_state.total_messages_fetched = 0
    /\ TotalProcessed(mem, "alice") = 0
    /\ TotalProcessed(mem, "bob") = 1
    /\ mem.statistics.total_messages_processed = 1
    /\ mem.statistics.total_messages_fetched = 1
    /\ mem.statistics.total_users = 2

\* ----------------------------------------------------------------- C30
\* C30 (as claimed): when process_all_users returns, with either value of
\* skip_errors, the aggregate report's messages_processed is the increase
\* of statistics.total_messages_processed since the call started, and its
\* errors is the length of its error_details.
C30_ReportAgreesWithState ==
    agg.pc = "returned" =>
        /\ agg.combined.messages_processed
               = mem.statistics.total_messages_processed - agg.before
        /\ agg.combined.errors = Len(agg.combined.error_details)

====
